---------------------------- MODULE Spec2Model ----------------------------
(***************************************************************************)
(* KanVis: a board of window records in columns, edited by several VS Code *)
(* windows.  The module models                                             *)
(*   - the Board aggregate (models/Board.ts): pure transformations,        *)
(*   - the replicated document (services/BoardSync.ts on Yjs),             *)
(*   - BoardService with its event history over MemoryStorageService,      *)
(*   - the event history on its own (models/EventHistory.ts).              *)
(* Each part has its own specification (SpecBoard, SpecSync, SpecService,  *)
(* SpecHistory); the variables of the other parts stay at their initial    *)
(* values.                                                                 *)
(***************************************************************************)
EXTENDS Integers, Sequences, FiniteSets, TLC

VARIABLES
    now,        \* Date.now(): one clock for the whole machine
    board,      \* SpecBoard: the BoardState the pure functions are applied to
    lastOp,     \* SpecBoard: the call made by the last step
    docs,       \* SpecSync: replica -> the Yjs document of its BoardSync
    updates,    \* SpecSync: replica -> bytes last exported by getUpdate()
    svc,        \* SpecService: replica -> BoardService fields
    storage,    \* SpecService: the shared MemoryStorageService
    pending,    \* SpecService: replica -> operations suspended at `await save`,
                \*   each with the state it saved
    log,        \* SpecService: what the last step did: the snapshot handed to
                \*   watch callbacks and the listener calls made
    ops,        \* SpecService: number of operations begun so far
    hist,       \* SpecHistory: the EventHistory: events, position
    maxSize,    \* SpecHistory: its maxSize; 0 before the constructor has run
    histLog,    \* SpecHistory: the last call with its return value, and what
                \*   has been recorded, undone and cut off so far
    crdt,       \* SpecCrdt: replica -> its CRDTStorageService and BoardService
    files,      \* SpecCrdt: kanvis-sync.bin and kanvis-board.json on the disk,
                \*   and the replicas whose file watcher has an event to handle
    crdtLog,    \* SpecCrdt: what the last step did
    store,      \* SpecStore: a BoardService on the debounced StorageService
    storeLog,   \* SpecStore: what the last step did
    subs,       \* SpecListen: a callback list and the registrations made on it
    subsLog,    \* SpecListen: what the last step did
    ywindows,   \* SpecArray: the Y.Array 'windows' of one BoardCRDT
    latest,     \* SpecArray: id -> the window last upserted and not removed
    context,    \* SpecMachine: the context of the boardMachine actor
    sent,       \* SpecMachine: the number of events sent to the actor
    ydocs,      \* SpecMerge: the Y.Doc of one BoardCRDT per replica
    yops,       \* SpecMerge: the number of local operations made so far
    wm          \* SpecHeartbeat: a WindowManager on the BoardService of `store`

vars == <<now, board, lastOp, docs, updates, svc, storage, pending, log, ops,
          hist, maxSize, histLog, crdt, files, crdtLog, store, storeLog, subs,
          subsLog, ywindows, latest, context, sent, ydocs, yops, wm>>
boardVars == <<board, lastOp>>
syncVars == <<docs, updates>>
svcVars == <<svc, storage, pending, log, ops>>
histVars == <<hist, maxSize, histLog>>
crdtVars == <<crdt, files, crdtLog>>
storeVars == <<store, storeLog>>
subsVars == <<subs, subsLog>>
arrayVars == <<ywindows, latest>>
machineVars == <<context, sent>>
mergeVars == <<ydocs, yops>>
lateVars == <<machineVars, mergeVars, wm>>
extVars == <<crdtVars, storeVars, subsVars, arrayVars, lateVars>>
coreVars == <<boardVars, syncVars, svcVars, histVars>>
earlyVars == <<coreVars, crdtVars, storeVars, subsVars, arrayVars>>

---------------------------------------------------------------------------
(* Bounds of the model *)

MaxTime == 2
MaxOrder == 2
MaxSyncOps == 3
MaxSvcOps == 3
MaxPending == 1
MaxHistorySize == 3
MaxRecorded == 5
MaxCrdtOps == 4

WindowIds == {"w1", "w2", "w3"}
ColumnIds == {"backlog", "current"}
None == "none"

(* models/Column.ts DEFAULT_COLUMNS (ids only) *)
DEFAULT_COLUMNS == <<"backlog", "current", "priorities">>
SCHEMA_VERSION == 1

---------------------------------------------------------------------------
(* Generic helpers on sequences *)

Range(s) == {s[i] : i \in 1..Len(s)}

Min(S) == CHOOSE x \in S : \A y \in S : x <= y

Max(S) == CHOOSE x \in S : \A y \in S : x >= y

(* insert x into the sorted sequence s after every element with key <= key(x):
   Array.prototype.sort is stable *)
RECURSIVE InsertByOrder(_, _)
InsertByOrder(s, x) ==
    IF s = <<>> THEN <<x>>
    ELSE IF Head(s).order <= x.order THEN <<Head(s)>> \o InsertByOrder(Tail(s), x)
         ELSE <<x>> \o s

RECURSIVE SortByOrder(_)
SortByOrder(s) ==
    IF s = <<>> THEN <<>>
    ELSE InsertByOrder(SortByOrder(SubSeq(s, 1, Len(s) - 1)), s[Len(s)])

---------------------------------------------------------------------------
(* models/Board.ts *)

Window(id, columnId, order, name, isOpen, t) ==
    [id |-> id, columnId |-> columnId, order |-> order, name |-> name,
     isOpen |-> isOpen, lastActiveAt |-> t]

createDefaultBoard(t) ==
    [windows |-> <<>>, columns |-> DEFAULT_COLUMNS,
     version |-> SCHEMA_VERSION, lastModifiedAt |-> t]

hasWindow(b, windowId) == \E i \in 1..Len(b.windows) : b.windows[i].id = windowId

(* Array.prototype.findIndex: the first index, 0 when there is none *)
findIndex(b, windowId) ==
    IF hasWindow(b, windowId)
    THEN Min({i \in 1..Len(b.windows) : b.windows[i].id = windowId})
    ELSE 0

(* defined only when hasWindow(b, windowId); the code returns undefined
   otherwise and every caller tests for it first *)
findWindow(b, windowId) == b.windows[findIndex(b, windowId)]

getWindowsInColumn(b, columnId) ==
    LET inColumn(w) == w.columnId = columnId
    IN  SortByOrder(SelectSeq(b.windows, inColumn))

(* an upsertWindow that never looks for the id and always appends *)
upsertWindow_AlwaysAppend(b, window, t) ==
    [b EXCEPT !.windows = Append(b.windows, window), !.lastModifiedAt = t]

upsertWindow(b, window, t) ==
    LET existingIndex == findIndex(b, window.id)
        windows == IF existingIndex >= 1
                   THEN [i \in 1..Len(b.windows) |->
                            IF i = existingIndex THEN window ELSE b.windows[i]]
                   ELSE Append(b.windows, window)
    IN  [b EXCEPT !.windows = windows, !.lastModifiedAt = t]

removeWindow(b, windowId, t) ==
    LET keep(w) == w.id # windowId
    IN  [b EXCEPT !.windows = SelectSeq(b.windows, keep), !.lastModifiedAt = t]

(* MoveOne with the target column's shift starting one position too late *)
MoveOne_LateShift(w, window, windowId, toColumnId, toOrder, t) ==
    LET fromColumnId == window.columnId
    IN  IF w.id = windowId
        THEN [w EXCEPT !.columnId = toColumnId, !.order = toOrder,
                       !.lastActiveAt = t]
        ELSE IF fromColumnId # toColumnId /\ w.columnId = fromColumnId
                /\ w.order > window.order
        THEN [w EXCEPT !.order = w.order - 1]
        ELSE IF w.columnId = toColumnId /\ w.order > toOrder /\ w.id # windowId
        THEN [w EXCEPT !.order = w.order + 1]
        ELSE w

(* MoveOne that closes the gap in the source column also when the window
   stays in its column *)
MoveOne_AlwaysCloseGap(w, window, windowId, toColumnId, toOrder, t) ==
    LET fromColumnId == window.columnId
    IN  IF w.id = windowId
        THEN [w EXCEPT !.columnId = toColumnId, !.order = toOrder,
                       !.lastActiveAt = t]
        ELSE IF w.columnId = fromColumnId /\ w.order > window.order
        THEN [w EXCEPT !.order = w.order - 1]
        ELSE IF w.columnId = toColumnId /\ w.order >= toOrder /\ w.id # windowId
        THEN [w EXCEPT !.order = w.order + 1]
        ELSE w

MoveOne(w, window, windowId, toColumnId, toOrder, t) ==
    LET fromColumnId == window.columnId
    IN  IF w.id = windowId
        THEN [w EXCEPT !.columnId = toColumnId, !.order = toOrder,
                       !.lastActiveAt = t]
        ELSE IF fromColumnId # toColumnId /\ w.columnId = fromColumnId
                /\ w.order > window.order
        THEN [w EXCEPT !.order = w.order - 1]
        ELSE IF w.columnId = toColumnId /\ w.order >= toOrder /\ w.id # windowId
        THEN [w EXCEPT !.order = w.order + 1]
        ELSE w

(* a moveWindow that stamps the board even when it finds no window to move *)
moveWindow_AlwaysStamp(b, windowId, toColumnId, toOrder, t) ==
    IF ~hasWindow(b, windowId) THEN [b EXCEPT !.lastModifiedAt = t]
    ELSE LET window == findWindow(b, windowId)
             one(w) == MoveOne(w, window, windowId, toColumnId, toOrder, t)
         IN  [b EXCEPT !.windows = [i \in 1..Len(b.windows) |-> one(b.windows[i])], !.lastModifiedAt = t]

moveWindow(b, windowId, toColumnId, toOrder, t) ==
    IF ~hasWindow(b, windowId) THEN b
    ELSE LET window == findWindow(b, windowId)
             one(w) == MoveOne(w, window, windowId, toColumnId, toOrder, t)
         IN  [b EXCEPT !.windows = [i \in 1..Len(b.windows) |-> one(b.windows[i])], !.lastModifiedAt = t]

updateWindowStatus(b, windowId, isOpen, t) ==
    LET one(w) == IF w.id = windowId
                  THEN [w EXCEPT !.isOpen = isOpen, !.lastActiveAt = t]
                  ELSE w
    IN  [b EXCEPT !.windows = [i \in 1..Len(b.windows) |-> one(b.windows[i])], !.lastModifiedAt = t]

---------------------------------------------------------------------------
(* Predicates on boards *)

IdsOf(s) == [i \in 1..Len(s) |-> s[i].id]

OrderUnique(b) ==
    \A i, j \in 1..Len(b.windows) :
        (i # j /\ b.windows[i].columnId = b.windows[j].columnId)
            => b.windows[i].order # b.windows[j].order

(* the slot (columnId, order) of `window` is held by no other window of b *)
SlotFree(b, window) ==
    \A i \in 1..Len(b.windows) :
        (b.windows[i].id # window.id /\ b.windows[i].columnId = window.columnId)
            => b.windows[i].order # window.order

(* the windows of the column have orders exactly 0..n-1 *)
Dense(b, columnId) ==
    LET col == getWindowsInColumn(b, columnId)
    IN  \A i \in 1..Len(col) : col[i].order = i - 1

MaxOrderOf(b) == Max({0} \cup {b.windows[i].order : i \in 1..Len(b.windows)})

---------------------------------------------------------------------------
(* The Yjs document behind services/BoardSync.ts: ydoc with the Y.Map
   'windows', the Y.Array 'columns' and the Y.Map 'meta'.  Every value lives
   in an item with an id (client, clock), the id of the item it was inserted
   after (origin) and before (rightOrigin).  One list of items per map key
   and one for the array; an element of the array is an item of its own (Yjs
   splits a multi-element item on demand with the same origins). *)

Replicas == {"A", "B"}

(* Y.Doc.clientID: random in Yjs, different for different documents *)
ClientID(r) == IF r = "A" THEN 1 ELSE 2

SyncWindowIds == {"w1", "w2"}

NoId == <<0, 0>>
MetaVersion == <<"meta", "version">>
MetaModified == <<"meta", "lastModifiedAt">>
ColumnsKey == <<"columns", "">>
WindowKey(id) == <<"windows", id>>
Keys == {WindowKey(id) : id \in SyncWindowIds}
            \cup {MetaVersion, MetaModified, ColumnsKey}
IsMapKey(key) == key[1] # "columns"

(* new Y.Doc(): lists holds the items of each type in list order, deleted is
   the delete set, mapKeys the keys of windowsMap._map in insertion order,
   txns the number of local transactions made so far *)
EmptyDoc(client) ==
    [client |-> client, lists |-> [k \in Keys |-> <<>>], deleted |-> {},
     mapKeys |-> <<>>, txns |-> 0]

ItemIds(doc) ==
    UNION {{doc.lists[k][i].id : i \in 1..Len(doc.lists[k])} : k \in Keys}

(* the state vector entry of a client: its items are numbered from 0 *)
ClockOf(doc, client) == Cardinality({id \in ItemIds(doc) : id[1] = client})

IndexOfId(L, id) == CHOOSE i \in 1..Len(L) : L[i].id = id

(* Item.integrate, the conflict loop: walk from the item after the origin up
   to the right origin and return the index the new item goes after *)
RECURSIVE ScanLeft(_, _, _, _, _, _, _)
ScanLeft(L, item, i, rightIdx, left, before, conf) ==
    IF i > Len(L) \/ i = rightIdx THEN left
    ELSE LET o == L[i]
             before2 == before \cup {o.id}
             conf2 == conf \cup {o.id}
         IN  IF o.origin = item.origin
             THEN IF o.id[1] < item.id[1]
                  THEN ScanLeft(L, item, i + 1, rightIdx, i, before2, {})
                  ELSE IF o.rightOrigin = item.rightOrigin
                  THEN left
                  ELSE ScanLeft(L, item, i + 1, rightIdx, left, before2, conf2)
             ELSE IF o.origin # NoId /\ o.origin \in before2
             THEN IF o.origin \notin conf2
                  THEN ScanLeft(L, item, i + 1, rightIdx, i, before2, {})
                  ELSE ScanLeft(L, item, i + 1, rightIdx, left, before2, conf2)
             ELSE left


(* a variant of Integrate with no conflict scan: the item goes to the end of
   the list of its key, so the item that arrives last is the value *)
Integrate_ArrivalOrder(doc, key, item) ==
    LET L == doc.lists[key]
    IN  [doc EXCEPT
           !.lists[key] = Append(L, item),
           !.deleted = IF IsMapKey(key) /\ L # <<>> THEN @ \cup {L[Len(L)].id}
                       ELSE @,
           !.mapKeys = IF key[1] = "windows" /\ L = <<>> THEN Append(@, key[2])
                       ELSE @]

(* Item.integrate: place the item in the list of its key; in a map the last
   item of a key is its value, any other item of the key is deleted *)
Integrate(doc, key, item) ==
    LET L == doc.lists[key]
        leftIdx == IF item.origin = NoId THEN 0 ELSE IndexOfId(L, item.origin)
        rightIdx == IF item.rightOrigin = NoId THEN Len(L) + 1
                    ELSE IndexOfId(L, item.rightOrigin)
        left == ScanLeft(L, item, leftIdx + 1, rightIdx, leftIdx, {}, {})
        isLast == left = Len(L)
    IN  [doc EXCEPT
           !.lists[key] = SubSeq(L, 1, left) \o <<item>> \o SubSeq(L, left + 1, Len(L)),
           !.deleted = IF ~IsMapKey(key) THEN @
                       ELSE IF ~isLast THEN @ \cup {item.id}
                       ELSE IF left >= 1 THEN @ \cup {L[left].id}
                       ELSE @,
           !.mapKeys = IF key[1] = "windows" /\ L = <<>> THEN Append(@, key[2])
                       ELSE @]

(* Y.Map.set -> typeMapSet: a new item after the current item of the key *)
typeMapSet(doc, key, value) ==
    LET L == doc.lists[key]
    IN  Integrate(doc, key,
            [id |-> <<doc.client, ClockOf(doc, doc.client)>>,
             origin |-> IF L = <<>> THEN NoId ELSE L[Len(L)].id,
             rightOrigin |-> NoId,
             content |-> value])

(* Y.Map.delete -> typeMapDelete: delete the current item of the key *)
typeMapDelete(doc, key) ==
    LET L == doc.lists[key]
    IN  IF L = <<>> THEN doc
        ELSE [doc EXCEPT !.deleted = @ \cup {L[Len(L)].id}]

(* Y.Array.delete(0, length): every element still there is deleted *)
arrayDeleteAll(doc) ==
    [doc EXCEPT !.deleted =
        @ \cup {doc.lists[ColumnsKey][i].id : i \in 1..Len(doc.lists[ColumnsKey])}]

(* Y.Array.insert(0, content): the new elements go in front of the first
   item of the list, deleted or not; each after the one before it *)
RECURSIVE arrayInsertAfter(_, _, _, _)
arrayInsertAfter(doc, leftId, rightId, content) ==
    IF content = <<>> THEN doc
    ELSE LET id == <<doc.client, ClockOf(doc, doc.client)>>
             item == [id |-> id, origin |-> leftId, rightOrigin |-> rightId,
                      content |-> Head(content)]
         IN  arrayInsertAfter(Integrate(doc, ColumnsKey, item), id, rightId,
                              Tail(content))

arrayInsertFront(doc, content) ==
    LET L == doc.lists[ColumnsKey]
    IN  arrayInsertAfter(doc, NoId, IF L = <<>> THEN NoId ELSE L[1].id, content)

(* Y.Map.get: the value of the current item unless it is deleted *)
IsLive(doc, key) ==
    /\ doc.lists[key] # <<>>
    /\ doc.lists[key][Len(doc.lists[key])].id \notin doc.deleted

mapGet(doc, key) == doc.lists[key][Len(doc.lists[key])].content

---------------------------------------------------------------------------
(* services/BoardSync.ts *)

RECURSIVE setWindows(_, _)
setWindows(doc, windows) ==
    IF windows = <<>> THEN doc
    ELSE setWindows(typeMapSet(doc, WindowKey(Head(windows).id), Head(windows)),
                    Tail(windows))

Transact(doc) == [doc EXCEPT !.txns = @ + 1]

BoardSync_loadState(doc, state) ==
    LET d1 == setWindows(doc, state.windows)
        d2 == arrayInsertFront(arrayDeleteAll(d1), state.columns)
        d3 == typeMapSet(d2, MetaVersion, state.version)
    IN  Transact(typeMapSet(d3, MetaModified, state.lastModifiedAt))

BoardSync_extractState(doc, t) ==
    LET live(id) == IsLive(doc, WindowKey(id))
        liveKeys == SelectSeq(doc.mapKeys, live)
        cols == doc.lists[ColumnsKey]
        there(item) == item.id \notin doc.deleted
        liveCols == SelectSeq(cols, there)
    IN  [windows |-> [i \in 1..Len(liveKeys) |-> mapGet(doc, WindowKey(liveKeys[i]))],
         columns |-> [i \in 1..Len(liveCols) |-> liveCols[i].content],
         version |-> IF IsLive(doc, MetaVersion) THEN mapGet(doc, MetaVersion) ELSE 1,
         lastModifiedAt |-> IF IsLive(doc, MetaModified)
                            THEN mapGet(doc, MetaModified) ELSE t]

BoardSync_upsertWindow(doc, window, t) ==
    Transact(typeMapSet(typeMapSet(doc, WindowKey(window.id), window),
                        MetaModified, t))

BoardSync_deleteWindow(doc, windowId, t) ==
    Transact(typeMapSet(typeMapDelete(doc, WindowKey(windowId)), MetaModified, t))

KeyOfId(doc, id) ==
    CHOOSE k \in Keys : \E i \in 1..Len(doc.lists[k]) : doc.lists[k][i].id = id

(* Y.encodeStateAsUpdate(ydoc): every item with its type and key, and the
   delete set; no positions *)
BoardSync_getUpdate(doc) ==
    [structs |-> [id \in ItemIds(doc) |->
                    LET k == KeyOfId(doc, id)
                    IN  [key |-> k,
                         item |-> doc.lists[k][IndexOfId(doc.lists[k], id)]]],
     ds |-> doc.deleted]

(* an item of the update can be integrated when it is the next one of its
   client and the items it names are in the document *)
ReadyIds(doc, update) ==
    LET have == ItemIds(doc)
    IN  {id \in DOMAIN update.structs \ have :
            /\ id[2] = ClockOf(doc, id[1])
            /\ update.structs[id].item.origin \in have \cup {NoId}
            /\ update.structs[id].item.rightOrigin \in have \cup {NoId}}


(* a variant of integrateStructs that stops after the first item *)
integrateStructs_OneStruct(doc, update) ==
    LET ready == ReadyIds(doc, update)
    IN  IF ready = {} THEN doc
        ELSE LET id == CHOOSE x \in ready : \A y \in ready : y[1] <= x[1]
                 st == update.structs[id]
             IN  Integrate(doc, st.key, st.item)

(* readUpdate -> integrateStructs: the items the document does not have, the
   highest client first, its dependencies before an item *)
RECURSIVE integrateStructs(_, _)
integrateStructs(doc, update) ==
    LET ready == ReadyIds(doc, update)
    IN  IF ready = {} THEN doc
        ELSE LET id == CHOOSE x \in ready : \A y \in ready : y[1] <= x[1]
                 st == update.structs[id]
             IN  integrateStructs(Integrate(doc, st.key, st.item), update)

(* a variant of applyUpdate that takes the update as the whole document:
   what the document held and the update lacks is gone *)
BoardSync_applyUpdate_Overwrite(doc, update) ==
    LET d == integrateStructs([EmptyDoc(doc.client) EXCEPT !.txns = doc.txns],
                              update)
    IN  [d EXCEPT !.deleted = @ \cup (update.ds \cap ItemIds(d))]

(* Y.applyUpdate(ydoc, update): integrate, then apply the delete set *)
BoardSync_applyUpdate(doc, update) ==
    LET d == integrateStructs(doc, update)
    IN  [d EXCEPT !.deleted = @ \cup (update.ds \cap ItemIds(d))]

---------------------------------------------------------------------------
(* models/EventHistory.ts *)

HistorySize == 100

EventHistory_new == [events |-> <<>>, position |-> -1]

(* what undo() and redo() return when there is nothing to return: null *)
NullEvent == [kind |-> "null"]

(* a variant of recordEvent that keeps the events after the position *)
EventHistory_recordEvent_KeepTail(h, event, size) ==
    LET events == Append(h.events, event)
        position == h.position + 1
        excess == Len(events) - size
    IN  IF excess > 0
        THEN [events |-> SubSeq(events, excess + 1, Len(events)),
              position |-> position - excess]
        ELSE [events |-> events, position |-> position]

(* a variant of recordEvent that trims the newest events, not the oldest *)
EventHistory_recordEvent_TrimNewest(h, event, size) ==
    LET events == Append(SubSeq(h.events, 1, h.position + 1), event)
        position == h.position + 1
        excess == Len(events) - size
    IN  IF excess > 0
        THEN [events |-> SubSeq(events, 1, size), position |-> position - excess]
        ELSE [events |-> events, position |-> position]

(* a variant of recordEvent that trims the events and leaves the position *)
EventHistory_recordEvent_NoShift(h, event, size) ==
    LET events == Append(SubSeq(h.events, 1, h.position + 1), event)
        position == h.position + 1
        excess == Len(events) - size
    IN  IF excess > 0
        THEN [events |-> SubSeq(events, excess + 1, Len(events)),
              position |-> position]
        ELSE [events |-> events, position |-> position]

EventHistory_recordEvent(h, event, size) ==
    LET events == Append(SubSeq(h.events, 1, h.position + 1), event)
        position == h.position + 1
        excess == Len(events) - size
    IN  IF excess > 0
        THEN [events |-> SubSeq(events, excess + 1, Len(events)),
              position |-> position - excess]
        ELSE [events |-> events, position |-> position]

EventHistory_canUndo(h) == h.position >= 0

EventHistory_canRedo(h) == h.position < Len(h.events) - 1

(* undo() returns events[position] and moves position back; the caller tests
   canUndo first (the code returns null otherwise) *)
(* a variant of undo() that returns the oldest event *)
EventHistory_undoEvent_Oldest(h) == h.events[1]

EventHistory_undoEvent(h) == h.events[h.position + 1]

EventHistory_undo(h) == [h EXCEPT !.position = @ - 1]

(* a variant of redo() that reads the event before it moves the position *)
EventHistory_redoEvent_Before(h) == h.events[IF h.position < 0 THEN 1 ELSE h.position + 1]

EventHistory_redoEvent(h) == h.events[h.position + 2]

EventHistory_redo(h) == [h EXCEPT !.position = @ + 1]

EventHistory_clear(h) == [h EXCEPT !.events = <<>>, !.position = -1]

---------------------------------------------------------------------------
(* BoardService (V5: with event history and the guard in the watch callback)
   on one MemoryStorageService shared by the replicas *)

Listeners == {"l1", "l2"}

(* constructor: this.state, this.listeners, this.history; phase tells how far
   initialize() has come, loaded is the value of `await this.storage.load()`,
   held the states this.state had before, last the latest operation that
   reached saveAndNotify with this.state before and after it *)
BoardService_new ==
    LET state == [windows |-> <<>>, columns |-> <<>>, version |-> 1,
                  lastModifiedAt |-> 0]
    IN  [phase |-> "new", state |-> state, loaded |-> state, listeners |-> <<>>,
         history |-> EventHistory_new, held |-> {},
         last |-> [op |-> "none", before |-> state, after |-> state]]

(* this.state = newState, remembering the state it replaces *)
SetState(s, newState) ==
    [s EXCEPT !.state = newState,
              !.held = IF newState = s.state THEN @ ELSE @ \cup {s.state}]

(* notifyListeners: listeners.forEach(listener => listener(this.state)) *)
notifyListeners(r, s) ==
    [i \in 1..Len(s.listeners) |->
        [replica |-> r, listener |-> s.listeners[i], state |-> s.state]]

(* a variant of the guard that lets a snapshot with an equal timestamp in *)
Stale_Strict(newState, state) == newState.lastModifiedAt < state.lastModifiedAt

(* a variant with no guard: BoardService before the fix *)
Stale_Never(newState, state) == FALSE

(* the guard of the watch callback *)
Stale(newState, state) == newState.lastModifiedAt <= state.lastModifiedAt

(* the watch callback registered by initialize(): the service after it ... *)
watchCallback(s, newState) ==
    IF Stale(newState, s.state) THEN s ELSE SetState(s, newState)

(* ... and the listener calls it makes *)
watchCalls(r, s, newState) ==
    IF Stale(newState, s.state) THEN <<>>
    ELSE notifyListeners(r, watchCallback(s, newState))

(* MemoryStorageService.save: watchers.forEach(watcher => watcher(state)) *)
RECURSIVE saveCalls(_, _, _)
saveCalls(sv, watchers, state) ==
    IF watchers = <<>> THEN <<>>
    ELSE watchCalls(Head(watchers), sv[Head(watchers)], state)
            \o saveCalls(sv, Tail(watchers), state)

saveWatchers(sv, watchers, state) ==
    [q \in DOMAIN sv |->
        IF q \in Range(watchers) THEN watchCallback(sv[q], state) ELSE sv[q]]

---------------------------------------------------------------------------
(* Initial state *)

(* now: the first Date.now(). board: createDefaultBoard().  docs, updates:
   ensureInitialized makes a new Y.Doc per BoardSync, nothing exported yet.
   svc, storage: new MemoryStorageService(), new BoardService(storage) per
   replica. *)
---------------------------------------------------------------------------
(* CRDTStorageService (part_010): a BoardSync document, currentState and the
   debounce timer; the two files it reads and writes are shared by every
   replica.  A file is a sequence of length 0 (absent) or 1. *)

(* the bytes of kanvis-sync.bin: an encoded update of which the decoder can
   read everything ("all"), the structs but not the delete set that follows
   them ("structs": a file cut short), or nothing ("none") *)
Bytes(update, readable) == [update |-> update, readable |-> readable]

(* Y.applyUpdate on bytes: readUpdate decodes and integrates the structs, then
   reads and applies the delete set; a decoding error is thrown from where it
   happens *)
BoardSync_applyBytes(doc, bytes) ==
    CASE bytes.readable = "all" ->
            [doc |-> BoardSync_applyUpdate(doc, bytes.update), threw |-> FALSE]
      [] bytes.readable = "structs" ->
            [doc |-> integrateStructs(doc, bytes.update), threw |-> TRUE]
      [] OTHER -> [doc |-> doc, threw |-> TRUE]

(* constructor of CRDTStorageService, and of the BoardService that uses it *)
CRDTStorageService_new(r) ==
    [phase |-> "new", doc |-> EmptyDoc(ClientID(r)),
     currentState |-> createDefaultBoard(1), saveTimer |-> FALSE,
     state |-> BoardService_new.state]

(* load(): the sync file, else the JSON file, else a default board *)
CRDTStorageService_load(c, f, t) ==
    LET applied == BoardSync_applyBytes(c.doc, f.sync[1])
    IN  IF f.sync # <<>> /\ ~applied.threw
        THEN [c EXCEPT !.doc = applied.doc,
                       !.currentState = BoardSync_extractState(applied.doc, t)]
        ELSE LET doc == IF f.sync # <<>> THEN applied.doc ELSE c.doc
                 state == IF f.json # <<>> THEN f.json[1] ELSE createDefaultBoard(t)
             IN  [c EXCEPT !.doc = BoardSync_loadState(doc, state),
                           !.currentState = state]

(* save(state) up to the timer: currentState, loadState, setTimeout *)
CRDTStorageService_save(c, state) ==
    [c EXCEPT !.currentState = state, !.doc = BoardSync_loadState(@, state),
              !.saveTimer = TRUE]

(* saveImmediate(): the JSON file, then the sync file *)
CRDTStorageService_saveImmediate(c, f) ==
    [f EXCEPT !.json = <<c.currentState>>,
              !.sync = <<Bytes(BoardSync_getUpdate(c.doc), "all")>>]

(* handleChange up to its callback: read, merge, extract; a throw is caught
   and the callback is not called *)
CRDTStorageService_handleChange(c, f, t) ==
    LET applied == BoardSync_applyBytes(c.doc, f.sync[1])
    IN  IF applied.threw
        THEN [c |-> [c EXCEPT !.doc = applied.doc], called |-> FALSE]
        ELSE [c |-> [c EXCEPT !.doc = applied.doc,
                              !.currentState = BoardSync_extractState(applied.doc, t)],
              called |-> TRUE]

---------------------------------------------------------------------------
(* StorageService (part_009:1-116): the JSON file and the debounce timer,
   under one BoardService.  The file is a sequence of length 0 or 1, and so
   is the timer: the id of the save() call that set it and the state it is
   going to write. *)

MaxSaves == 3

(* load(): the file, or a default board when there is none *)
StorageService_load(disk, t) ==
    IF disk # <<>> THEN disk[1] ELSE createDefaultBoard(t)

(* a save() that lets the state of a timer it replaces stand *)
StorageService_save_KeepFirst(timer, k, state) ==
    IF timer # <<>> THEN <<[id |-> k, state |-> timer[1].state]>>
    ELSE <<[id |-> k, state |-> state]>>

(* save(state): clearTimeout, then setTimeout for saveImmediate(state); the
   promise of the k-th call settles in that timer's callback only *)
StorageService_save(timer, k, state) == <<[id |-> k, state |-> state]>>

(* a saveAndNotify that puts this.state back to what the file holds when the
   save fails *)
saveAndNotify_settled_Rollback(st, ok) ==
    IF ok THEN [st EXCEPT !.notified = Append(@, st.state)]
    ELSE [st EXCEPT !.state = StorageService_load(st.disk, 1)]

(* saveAndNotify after its await: notifyListeners() when save resolved;
   when it rejected the exception leaves saveAndNotify and the operation *)
saveAndNotify_settled(st, ok) ==
    IF ok THEN [st EXCEPT !.notified = Append(@, st.state)] ELSE st

(* a BoardService initialized from an empty directory *)
StoreService_new ==
    [state |-> createDefaultBoard(1), timer |-> <<>>,
     promise |-> [k \in 1..MaxSaves |-> "none"], saved |-> <<>>,
     disk |-> <<>>, notified |-> <<>>]

---------------------------------------------------------------------------
(* BoardCRDT (part_003): the Y.Array 'windows' of one document.  The array is
   the list of its items in list order; a deleted item stays in the list as a
   tombstone. *)

MaxItems == 4

ArrayWindowIds == {"w1", "w2"}

(* Y.Array.toArray(): the contents of the items that are not deleted *)
toArray(items) ==
    LET live(item) == ~item.deleted
        kept == SelectSeq(items, live)
    IN  [i \in 1..Len(kept) |-> kept[i].content]

(* the place in the list of the item that holds element `index` (from 0) *)
ItemAt(items, index) ==
    CHOOSE p \in 1..Len(items) :
        /\ ~items[p].deleted
        /\ Cardinality({q \in 1..(p - 1) : ~items[q].deleted}) = index

(* Y.Array.delete(index, 1) *)
yarrayDelete(items, index) ==
    [items EXCEPT ![ItemAt(items, index)].deleted = TRUE]

(* Y.Array.insert(index, [content]): at the head for index 0, else right
   after the item that holds element index - 1 *)
yarrayInsert(items, index, content) ==
    LET p == IF index = 0 THEN 0 ELSE ItemAt(items, index - 1)
        item == [content |-> content, deleted |-> FALSE]
    IN  SubSeq(items, 1, p) \o <<item>> \o SubSeq(items, p + 1, Len(items))

(* Y.Array.push([content]): after the last item of the list *)
yarrayPush(items, content) ==
    Append(items, [content |-> content, deleted |-> FALSE])

(* findIndex(w => w.id === windowId) on toArray(), from 0; -1 when absent *)
findIndexById(items, windowId) ==
    LET array == toArray(items)
    IN  IF \E i \in 1..Len(array) : array[i].id = windowId
        THEN Min({i \in 1..Len(array) : array[i].id = windowId}) - 1
        ELSE -1

(* an upsertWindow that pushes the window without looking for its id *)
BoardCRDT_upsertWindow_PushOnly(items, window) == yarrayPush(items, window)

BoardCRDT_upsertWindow(items, window) ==
    LET index == findIndexById(items, window.id)
    IN  IF index >= 0
        THEN yarrayInsert(yarrayDelete(items, index), index, window)
        ELSE yarrayPush(items, window)

BoardCRDT_removeWindow(items, windowId) ==
    LET index == findIndexById(items, windowId)
    IN  IF index >= 0 THEN yarrayDelete(items, index) ELSE items

---------------------------------------------------------------------------
(* The board state machine (part_001:102-333): the context of the actor and
   its four actions.  assign() computes board and eventStore from the same
   context, the one before the event.  nanoid() is modelled by the position
   of the event in the store. *)

MaxSent == 3

(* types/schema DEFAULT_COLUMNS (ids only) *)
boardMachine_DEFAULT_COLUMNS == <<"backlog", "active", "done">>

boardMachine_context(t) ==
    [board |-> [windows |-> <<>>, columns |-> boardMachine_DEFAULT_COLUMNS,
                version |-> 5, lastModifiedAt |-> t],
     eventStore |-> <<>>]

boardMachine_addWindow(ctx, event, t) ==
    LET existingIndex == findIndex(ctx.board, event.window.id)
        windows == IF existingIndex >= 1
                   THEN [i \in 1..Len(ctx.board.windows) |->
                            IF i = existingIndex THEN event.window
                            ELSE ctx.board.windows[i]]
                   ELSE Append(ctx.board.windows, event.window)
    IN  [board |-> [ctx.board EXCEPT !.windows = windows, !.lastModifiedAt = t],
         eventStore |-> Append(ctx.eventStore,
                            [id |-> Len(ctx.eventStore) + 1, timestamp |-> t,
                             type |-> "WindowAdded", window |-> event.window])]

boardMachine_removeWindow(ctx, event, t) ==
    LET keep(w) == w.id # event.windowId
    IN  [board |-> [ctx.board EXCEPT !.windows = SelectSeq(@, keep),
                                     !.lastModifiedAt = t],
         eventStore |-> Append(ctx.eventStore,
                            [id |-> Len(ctx.eventStore) + 1, timestamp |-> t,
                             type |-> "WindowRemoved",
                             windowId |-> event.windowId])]

(* the board assigner of moveWindow, for a window that exists *)
boardMachine_moveOne(w, window, event, t) ==
    LET fromColumnId == window.columnId
    IN  IF w.id = event.windowId
        THEN [w EXCEPT !.columnId = event.toColumnId, !.order = event.toOrder,
                       !.lastActiveAt = t]
        ELSE IF fromColumnId # event.toColumnId /\ w.columnId = fromColumnId
                /\ w.order > window.order
        THEN [w EXCEPT !.order = w.order - 1]
        ELSE IF w.columnId = event.toColumnId /\ w.order >= event.toOrder
                /\ w.id # event.windowId
        THEN [w EXCEPT !.order = w.order + 1]
        ELSE w

(* a moveWindow whose stored event keeps the order the window came from *)
boardMachine_moveWindow_StoreFromOrder(ctx, event, t) ==
    IF ~hasWindow(ctx.board, event.windowId) THEN ctx
    ELSE LET window == findWindow(ctx.board, event.windowId)
             one(w) == boardMachine_moveOne(w, window, event, t)
         IN  [board |-> [ctx.board EXCEPT
                            !.windows = [i \in 1..Len(ctx.board.windows) |->
                                            one(ctx.board.windows[i])],
                            !.lastModifiedAt = t],
              eventStore |-> Append(ctx.eventStore,
                                 [id |-> Len(ctx.eventStore) + 1, timestamp |-> t,
                                  type |-> "WindowMoved",
                                  windowId |-> event.windowId,
                                  fromColumnId |-> window.columnId,
                                  toColumnId |-> event.toColumnId,
                                  toOrder |-> window.order])]

boardMachine_moveWindow(ctx, event, t) ==
    IF ~hasWindow(ctx.board, event.windowId) THEN ctx
    ELSE LET window == findWindow(ctx.board, event.windowId)
             one(w) == boardMachine_moveOne(w, window, event, t)
         IN  [board |-> [ctx.board EXCEPT
                            !.windows = [i \in 1..Len(ctx.board.windows) |->
                                            one(ctx.board.windows[i])],
                            !.lastModifiedAt = t],
              eventStore |-> Append(ctx.eventStore,
                                 [id |-> Len(ctx.eventStore) + 1, timestamp |-> t,
                                  type |-> "WindowMoved",
                                  windowId |-> event.windowId,
                                  fromColumnId |-> window.columnId,
                                  toColumnId |-> event.toColumnId,
                                  toOrder |-> event.toOrder])]

(* { ...w, ...event.updates, lastActiveAt: Date.now() } *)
boardMachine_updateOne(w, event, t) ==
    IF w.id = event.windowId
    THEN [[f \in DOMAIN w |-> IF f \in DOMAIN event.updates
                              THEN event.updates[f] ELSE w[f]]
             EXCEPT !.lastActiveAt = t]
    ELSE w

boardMachine_updateWindow(ctx, event, t) ==
    [board |-> [ctx.board EXCEPT
                    !.windows = [i \in 1..Len(ctx.board.windows) |->
                                    boardMachine_updateOne(ctx.board.windows[i],
                                                           event, t)],
                    !.lastModifiedAt = t],
     eventStore |-> Append(ctx.eventStore,
                        [id |-> Len(ctx.eventStore) + 1, timestamp |-> t,
                         type |-> "WindowUpdated", windowId |-> event.windowId,
                         updates |-> event.updates])]

(* the transition of state `idle` for one event *)
boardMachine_transition(ctx, event, t) ==
    CASE event.type = "ADD_WINDOW" -> boardMachine_addWindow(ctx, event, t)
      [] event.type = "REMOVE_WINDOW" -> boardMachine_removeWindow(ctx, event, t)
      [] event.type = "MOVE_WINDOW" -> boardMachine_moveWindow(ctx, event, t)
      [] event.type = "UPDATE_WINDOW" -> boardMachine_updateWindow(ctx, event, t)
      [] OTHER -> ctx

---------------------------------------------------------------------------
(* BoardCRDT (part_003) as a Yjs document that can be merged: the Y.Array
   'windows' and the key 'lastModifiedAt' of the Y.Map 'metadata' are lists of
   items [id, origin, rightOrigin, content], deleted is the delete set.  An
   item is numbered by its client and the number of items the client made
   before it. *)

MaxMergeOps == 3

BoardCRDT_new(client) ==
    [client |-> client, windows |-> <<>>, metadata |-> <<>>, deleted |-> {}]

BoardCRDT_itemIds(y) ==
    {y.windows[i].id : i \in 1..Len(y.windows)}
        \cup {y.metadata[i].id : i \in 1..Len(y.metadata)}

BoardCRDT_nextId(y) ==
    <<y.client, Cardinality({id \in BoardCRDT_itemIds(y) : id[1] = y.client})>>

(* Item.integrate on one list: the item goes after the item the conflict
   scan stops at *)
yintegrate(L, item) ==
    LET leftIdx == IF item.origin = NoId THEN 0 ELSE IndexOfId(L, item.origin)
        rightIdx == IF item.rightOrigin = NoId THEN Len(L) + 1
                    ELSE IndexOfId(L, item.rightOrigin)
        left == ScanLeft(L, item, leftIdx + 1, rightIdx, leftIdx, {}, {})
    IN  SubSeq(L, 1, left) \o <<item>> \o SubSeq(L, left + 1, Len(L))

(* the places in y.windows of the elements of toArray(), in order *)
BoardCRDT_live(y) ==
    LET P == {p \in 1..Len(y.windows) : y.windows[p].id \notin y.deleted}
        rank(p) == Cardinality({q \in P : q < p})
    IN  [i \in 1..Cardinality(P) |-> CHOOSE p \in P : rank(p) = i - 1]

(* this.windows.toArray() *)
BoardCRDT_toArray(y) ==
    LET live == BoardCRDT_live(y)
    IN  [i \in 1..Len(live) |-> y.windows[live[i]].content]

(* toArray().findIndex(w => w.id === windowId), from 0; -1 when absent *)
BoardCRDT_findIndex(y, windowId) ==
    LET array == BoardCRDT_toArray(y)
    IN  IF \E i \in 1..Len(array) : array[i].id = windowId
        THEN Min({i \in 1..Len(array) : array[i].id = windowId}) - 1
        ELSE -1

(* this.windows.delete(index, 1) *)
BoardCRDT_delete(y, index) ==
    [y EXCEPT !.deleted = @ \cup {y.windows[BoardCRDT_live(y)[index + 1]].id}]

(* typeListInsertGenericsAfter: a new item between the item at place p (none
   for p = 0) and the item that follows it in the list, deleted or not *)
BoardCRDT_insertAfter(y, p, content) ==
    LET L == y.windows
        item == [id |-> BoardCRDT_nextId(y),
                 origin |-> IF p = 0 THEN NoId ELSE L[p].id,
                 rightOrigin |-> IF p < Len(L) THEN L[p + 1].id ELSE NoId,
                 content |-> content]
    IN  [y EXCEPT !.windows = yintegrate(L, item)]

(* this.windows.insert(index, [content]) *)
BoardCRDT_insert(y, index, content) ==
    BoardCRDT_insertAfter(y, IF index = 0 THEN 0 ELSE BoardCRDT_live(y)[index],
                          content)

(* this.windows.push([content]): after the last item of the list *)
BoardCRDT_push(y, content) == BoardCRDT_insertAfter(y, Len(y.windows), content)

(* updateTimestamp(): metadata.set('lastModifiedAt', Date.now()) *)
BoardCRDT_updateTimestamp(y, t) ==
    LET L == y.metadata
        item == [id |-> BoardCRDT_nextId(y),
                 origin |-> IF L = <<>> THEN NoId ELSE L[Len(L)].id,
                 rightOrigin |-> NoId, content |-> t]
    IN  [y EXCEPT !.metadata = yintegrate(L, item)]

(* upsertWindow on a document *)
BoardCRDT_doc_upsertWindow(y, window, t) ==
    LET index == BoardCRDT_findIndex(y, window.id)
    IN  BoardCRDT_updateTimestamp(
            IF index >= 0
            THEN BoardCRDT_insert(BoardCRDT_delete(y, index), index, window)
            ELSE BoardCRDT_push(y, window),
            t)

(* removeWindow on a document *)
BoardCRDT_doc_removeWindow(y, windowId, t) ==
    LET index == BoardCRDT_findIndex(y, windowId)
    IN  IF index >= 0
        THEN BoardCRDT_updateTimestamp(BoardCRDT_delete(y, index), t)
        ELSE y

(* the forEach of moveWindow from element i (from 0) of windowsArray on: an
   element that has to change is deleted and inserted again at its index *)
RECURSIVE BoardCRDT_adjust(_, _, _, _, _, _, _)
BoardCRDT_adjust(y, windowsArray, i, windowIndex, window, toColumnId, toOrder) ==
    IF i >= Len(windowsArray) THEN y
    ELSE LET w == windowsArray[i + 1]
             fromColumnId == window.columnId
             inSource == /\ fromColumnId # toColumnId
                         /\ w.columnId = fromColumnId
                         /\ w.order > window.order
             inTarget == /\ w.columnId = toColumnId
                         /\ w.order >= toOrder
                         /\ w.id # window.id
             updatedW == IF inTarget THEN [w EXCEPT !.order = w.order + 1]
                         ELSE IF inSource THEN [w EXCEPT !.order = w.order - 1]
                         ELSE w
             y2 == IF i # windowIndex /\ (inSource \/ inTarget)
                   THEN BoardCRDT_insert(BoardCRDT_delete(y, i), i, updatedW)
                   ELSE y
         IN  BoardCRDT_adjust(y2, windowsArray, i + 1, windowIndex, window,
                              toColumnId, toOrder)

(* a moveWindow that shifts the windows of the target column from the one
   after toOrder on *)
BoardCRDT_doc_moveWindow_LateShift(y, windowId, toColumnId, toOrder, t) ==
    LET windowsArray == BoardCRDT_toArray(y)
        windowIndex == BoardCRDT_findIndex(y, windowId)
    IN  IF windowIndex < 0 THEN y
        ELSE LET window == windowsArray[windowIndex + 1]
                 updatedWindow == [window EXCEPT !.columnId = toColumnId,
                                                 !.order = toOrder,
                                                 !.lastActiveAt = t]
                 y1 == BoardCRDT_insert(BoardCRDT_delete(y, windowIndex),
                                        windowIndex, updatedWindow)
             IN  BoardCRDT_updateTimestamp(
                     BoardCRDT_adjust(y1, windowsArray, 0, windowIndex, window,
                                      toColumnId, toOrder + 1),
                     t)

(* moveWindow on a document *)
BoardCRDT_doc_moveWindow(y, windowId, toColumnId, toOrder, t) ==
    LET windowsArray == BoardCRDT_toArray(y)
        windowIndex == BoardCRDT_findIndex(y, windowId)
    IN  IF windowIndex < 0 THEN y
        ELSE LET window == windowsArray[windowIndex + 1]
                 updatedWindow == [window EXCEPT !.columnId = toColumnId,
                                                 !.order = toOrder,
                                                 !.lastActiveAt = t]
                 y1 == BoardCRDT_insert(BoardCRDT_delete(y, windowIndex),
                                        windowIndex, updatedWindow)
             IN  BoardCRDT_updateTimestamp(
                     BoardCRDT_adjust(y1, windowsArray, 0, windowIndex, window,
                                      toColumnId, toOrder),
                     t)

(* getStateVector(): Y.encodeStateAsUpdate(doc), every item with its type,
   and the delete set *)
BoardCRDT_getStateVector(y) ==
    [structs |-> [id \in BoardCRDT_itemIds(y) |->
                    IF \E i \in 1..Len(y.windows) : y.windows[i].id = id
                    THEN [type |-> "windows",
                          item |-> y.windows[IndexOfId(y.windows, id)]]
                    ELSE [type |-> "metadata",
                          item |-> y.metadata[IndexOfId(y.metadata, id)]]],
     ds |-> y.deleted]

(* the items of an update that can be integrated: the next one of their
   client, with the items they name in the document *)
BoardCRDT_ready(y, update) ==
    LET have == BoardCRDT_itemIds(y)
    IN  {id \in DOMAIN update.structs \ have :
            /\ id[2] = Cardinality({h \in have : h[1] = id[1]})
            /\ update.structs[id].item.origin \in have \cup {NoId}
            /\ update.structs[id].item.rightOrigin \in have \cup {NoId}}

RECURSIVE BoardCRDT_integrateStructs(_, _)
BoardCRDT_integrateStructs(y, update) ==
    LET ready == BoardCRDT_ready(y, update)
    IN  IF ready = {} THEN y
        ELSE LET id == CHOOSE x \in ready :
                            \A z \in ready : z[1] < x[1] \/ (z[1] = x[1] /\ z[2] >= x[2])
                 st == update.structs[id]
             IN  BoardCRDT_integrateStructs(
                     IF st.type = "windows"
                     THEN [y EXCEPT !.windows = yintegrate(@, st.item)]
                     ELSE [y EXCEPT !.metadata = yintegrate(@, st.item)],
                     update)

(* applyUpdate(update): Y.applyUpdate(doc, update) *)
BoardCRDT_applyUpdate(y, update) ==
    LET d == BoardCRDT_integrateStructs(y, update)
    IN  [d EXCEPT !.deleted = @ \cup (update.ds \cap BoardCRDT_itemIds(d))]

---------------------------------------------------------------------------
(* WindowManager (services/WindowManager.ts) on a BoardService with the
   debounced StorageService: currentWindowId, heartbeatTimer, and where its
   initialize() and unregisterCurrentWindow() stand; awaits is the save()
   call whose promise the call is waiting for *)

WindowManager_new ==
    [currentWindowId |-> None, heartbeatTimer |-> FALSE, pc |-> "new",
     awaits |-> 0]

(* an operation of BoardService up to the await in saveAndNotify: the state
   is set and handed to save(), whose promise is pending *)
BoardService_saveAndNotify(st, state) ==
    LET k == Len(st.saved) + 1
    IN  [st EXCEPT !.state = state,
                   !.timer = StorageService_save(st.timer, k, state),
                   !.promise[k] = "pending",
                   !.saved = Append(@, state)]

Init ==
    /\ now = 1
    /\ board = createDefaultBoard(1)
    /\ lastOp = [op |-> "init", id |-> None, columnId |-> None, order |-> 0]
    /\ docs = [r \in Replicas |-> EmptyDoc(ClientID(r))]
    /\ updates = [r \in Replicas |-> BoardSync_getUpdate(EmptyDoc(ClientID(r)))]
    /\ svc = [r \in Replicas |-> BoardService_new]
    /\ storage = [state |-> createDefaultBoard(1), watchers |-> <<>>,
                  notified |-> {}]
    /\ pending = [r \in Replicas |-> <<>>]
    /\ log = [op |-> "init", by |-> None, done |-> FALSE,
              snapshot |-> createDefaultBoard(1), watch |-> {}, calls |-> <<>>]
    /\ ops = 0
    /\ hist = EventHistory_new
    /\ maxSize = 0
    /\ histLog = [op |-> "init", ret |-> NullEvent, prevOp |-> "init",
                  prevRet |-> NullEvent, before |-> EventHistory_new,
                  before2 |-> EventHistory_new, recorded |-> <<>>,
                  run |-> <<>>, undos |-> 0, cut |-> {}]
    /\ crdt = [r \in Replicas |-> CRDTStorageService_new(r)]
    /\ files = [sync |-> <<>>, json |-> <<>>, changed |-> {}]
    /\ crdtLog = [op |-> "init", by |-> None, merged |-> createDefaultBoard(1),
                  before |-> createDefaultBoard(1), called |-> FALSE,
                  notified |-> FALSE]
    /\ store = StoreService_new
    /\ storeLog = [op |-> "init", k |-> 0]
    /\ subs = [listeners |-> <<>>, regs |-> <<>>]
    /\ subsLog = [op |-> "init", reg |-> 0, calls |-> <<>>]
    /\ ywindows = <<>>
    /\ latest = [id \in ArrayWindowIds |-> <<>>]
    /\ context = boardMachine_context(1)
    /\ sent = 0
    /\ ydocs = [r \in Replicas |-> BoardCRDT_new(ClientID(r))]
    /\ yops = 0
    /\ wm = WindowManager_new

(* Date.now() returns the same value or a later one on the next call *)
Tick ==
    /\ now < MaxTime
    /\ now' = now + 1
    /\ UNCHANGED <<boardVars, syncVars, svcVars, histVars, extVars>>

---------------------------------------------------------------------------
(* SpecBoard: the pure functions of models/Board.ts applied to one board *)

(* the windows a caller may pass to upsertWindow: any column, any order *)
BoardWindows ==
    {Window(id, c, o, "n1", FALSE, now) :
        id \in WindowIds, c \in ColumnIds, o \in 0..MaxOrder}

BoardUpsert(window) ==
    /\ board' = upsertWindow(board, window, now)
    /\ lastOp' = [op |-> "upsert", id |-> window.id,
                  columnId |-> window.columnId, order |-> window.order]
    /\ UNCHANGED <<now, syncVars, svcVars, histVars, extVars>>

BoardRemove(windowId) ==
    /\ board' = removeWindow(board, windowId, now)
    /\ lastOp' = [op |-> "remove", id |-> windowId, columnId |-> None, order |-> 0]
    /\ UNCHANGED <<now, syncVars, svcVars, histVars, extVars>>

BoardMove(windowId, toColumnId, toOrder) ==
    /\ MaxOrderOf(moveWindow(board, windowId, toColumnId, toOrder, now)) <= MaxOrder
    /\ board' = moveWindow(board, windowId, toColumnId, toOrder, now)
    /\ lastOp' = [op |-> "move", id |-> windowId,
                  columnId |-> toColumnId, order |-> toOrder]
    /\ UNCHANGED <<now, syncVars, svcVars, histVars, extVars>>

NextBoard ==
    \/ Tick
    \/ \E window \in BoardWindows : BoardUpsert(window)
    \/ \E windowId \in WindowIds : BoardRemove(windowId)
    \/ \E windowId \in WindowIds, c \in ColumnIds, o \in 0..MaxOrder :
          BoardMove(windowId, c, o)

SpecBoard == Init /\ [][NextBoard]_vars

---------------------------------------------------------------------------
(* Claims about the Board aggregate (SpecBoard) *)

(* C1 as stated: in every board reached by upsertWindow, removeWindow and
   moveWindow calls, no two windows of one column have the same order. *)
C1_OrderUniqueAlways == OrderUnique(board)

(* C1, amended: removeWindow, moveWindow, and an upsertWindow whose window
   takes a (columnId, order) slot that no other window holds, each lead from
   a board with unique per-column orders to a board with unique per-column
   orders. *)
C1_OrderUniquePreserved ==
    [][(/\ OrderUnique(board)
        /\ lastOp'.op = "upsert" => SlotFree(board, lastOp'))
       => OrderUnique(board')]_vars

(* a move has just been made into a column that now holds three windows with
   three different orders *)
C1_Witness ==
    /\ lastOp.op = "move"
    /\ hasWindow(board, lastOp.id)
    /\ Len(getWindowsInColumn(board, lastOp.columnId)) = 3
    /\ OrderUnique(board)

(* the sequence ids with id taken out and put back at index k (from 0) *)
Reinsert(ids, id, k) ==
    LET other(x) == x # id
        rest == SelectSeq(ids, other)
    IN  SubSeq(rest, 1, k) \o <<id>> \o SubSeq(rest, k + 1, Len(rest))

(* C2: a move inside one column whose orders are 0..n-1, to 0 <= toOrder < n,
   leaves the column (sorted by order) as the old sequence with the window
   taken out and reinserted at index toOrder. *)
C2_MoveReinsertsAtIndex ==
    [][\A windowId \in WindowIds, c \in ColumnIds, o \in 0..MaxOrder :
          (/\ BoardMove(windowId, c, o)
           /\ hasWindow(board, windowId)
           /\ findWindow(board, windowId).columnId = c
           /\ Dense(board, c)
           /\ o < Len(getWindowsInColumn(board, c)))
          => IdsOf(getWindowsInColumn(board', c))
                = Reinsert(IdsOf(getWindowsInColumn(board, c)), windowId, o)]_vars

---------------------------------------------------------------------------
(* SpecSync: two BoardSync documents that exchange getUpdate() bytes *)

SyncWindows ==
    {Window("w1", "backlog", 0, "n1", FALSE, 1),
     Window("w1", "backlog", 0, "n2", FALSE, 1),
     Window("w2", "backlog", 1, "n1", FALSE, 1)}

(* the boards a caller may pass to loadState *)
LoadBoards ==
    {[createDefaultBoard(now) EXCEPT !.windows = ws] :
        ws \in {<<>>, <<Window("w1", "backlog", 0, "n1", FALSE, 1)>>}}

TotalTxns == docs["A"].txns + docs["B"].txns

SyncUpsert(r, window) ==
    /\ TotalTxns < MaxSyncOps
    /\ docs' = [docs EXCEPT ![r] = BoardSync_upsertWindow(@, window, now)]
    /\ UNCHANGED <<now, updates, boardVars, svcVars, histVars, extVars>>

SyncDelete(r, windowId) ==
    /\ TotalTxns < MaxSyncOps
    /\ docs' = [docs EXCEPT ![r] = BoardSync_deleteWindow(@, windowId, now)]
    /\ UNCHANGED <<now, updates, boardVars, svcVars, histVars, extVars>>

SyncLoad(r, state) ==
    /\ TotalTxns < MaxSyncOps
    /\ docs' = [docs EXCEPT ![r] = BoardSync_loadState(@, state)]
    /\ UNCHANGED <<now, updates, boardVars, svcVars, histVars, extVars>>

SyncGetUpdate(r) ==
    /\ updates' = [updates EXCEPT ![r] = BoardSync_getUpdate(docs[r])]
    /\ UNCHANGED <<now, docs, boardVars, svcVars, histVars, extVars>>

SyncApply(r, from) ==
    /\ DOMAIN updates[from].structs # {}
    /\ docs' = [docs EXCEPT ![r] = BoardSync_applyUpdate(@, updates[from])]
    /\ UNCHANGED <<now, updates, boardVars, svcVars, histVars, extVars>>

NextSync ==
    \/ Tick
    \/ \E r \in Replicas, window \in SyncWindows : SyncUpsert(r, window)
    \/ \E r \in Replicas, windowId \in SyncWindowIds : SyncDelete(r, windowId)
    \/ \E r \in Replicas, state \in LoadBoards : SyncLoad(r, state)
    \/ \E r \in Replicas : SyncGetUpdate(r)
    \/ \E r \in Replicas, from \in Replicas : SyncApply(r, from)

SpecSync == Init /\ [][NextSync]_vars

---------------------------------------------------------------------------
(* Claims about the replicated document (SpecSync) *)

Extracted(doc) == BoardSync_extractState(doc, now)

WindowsOf(b) == {b.windows[i] : i \in 1..Len(b.windows)}

(* a third document, of a client of its own *)
ThirdDoc == EmptyDoc(3)

DocsToMerge == {docs[r] : r \in Replicas} \cup {ThirdDoc}

KeyItemIds(doc, key) == {doc.lists[key][i].id : i \in 1..Len(doc.lists[key])}

(* replica r holds a window under windowId that it wrote itself and that
   replica q has not seen, and q wrote nothing under windowId that r has not
   seen: an add of r concurrent with q, to a key q did not write *)
AddedAlone(r, q, windowId) ==
    LET key == WindowKey(windowId)
        L == docs[r].lists[key]
    IN  /\ IsLive(docs[r], key)
        /\ L[Len(L)].id[1] = ClientID(r)
        /\ L[Len(L)].id \notin ItemIds(docs[q])
        /\ KeyItemIds(docs[q], key) \subseteq KeyItemIds(docs[r], key)

(* C3: when replica r added r1 and replica q concurrently added r2 under a
   different id, then after each applies the bytes the other exports, the
   extracted state of both contains r1 and r2. *)
C3_DisjointAddsSurvive ==
    \A r, q \in Replicas, k1, k2 \in SyncWindowIds :
        (r # q /\ k1 # k2 /\ AddedAlone(r, q, k1) /\ AddedAlone(q, r, k2))
        => LET r1 == mapGet(docs[r], WindowKey(k1))
               r2 == mapGet(docs[q], WindowKey(k2))
               dr == BoardSync_applyUpdate(docs[r], BoardSync_getUpdate(docs[q]))
               dq == BoardSync_applyUpdate(docs[q], BoardSync_getUpdate(docs[r]))
           IN  /\ {r1, r2} \subseteq WindowsOf(Extracted(dr))
               /\ {r1, r2} \subseteq WindowsOf(Extracted(dq))

(* both replicas hold a common item (they merged before) and each has since
   added a window under an id of its own that the other has not seen *)
C3_Witness ==
    /\ AddedAlone("A", "B", "w1")
    /\ AddedAlone("B", "A", "w2")
    /\ \E id \in ItemIds(docs["A"]) \cap ItemIds(docs["B"]) :
          KeyOfId(docs["A"], id)[1] = "windows"

(* C4: applying exported update bytes twice gives the same extracted board
   as applying them once. *)
C4_MergeIdempotent ==
    \A d \in DocsToMerge, from \in Replicas :
        LET once == BoardSync_applyUpdate(d, updates[from])
        IN  Extracted(BoardSync_applyUpdate(once, updates[from])) = Extracted(once)

(* exported bytes with a window in them meet a document that lacks items of
   theirs and has items they lack *)
C4_Witness ==
    \E r, from \in Replicas :
        /\ \E id \in DOMAIN updates[from].structs :
              id \notin ItemIds(docs[r]) /\ updates[from].structs[id].key[1] = "windows"
        /\ ItemIds(docs[r]) \ DOMAIN updates[from].structs # {}

(* C5 as stated: a third document that applies the bytes of A then those of
   B extracts the same board as one that applies them in the other order. *)
C5_MergeCommutes ==
    LET ab == BoardSync_applyUpdate(BoardSync_applyUpdate(ThirdDoc, updates["A"]),
                                    updates["B"])
        ba == BoardSync_applyUpdate(BoardSync_applyUpdate(ThirdDoc, updates["B"]),
                                    updates["A"])
    IN  Extracted(ab) = Extracted(ba)

(* the board with its windows array taken as a set *)
Unordered(b) == [b EXCEPT !.windows = WindowsOf(b)]

(* C5, amended: applying two exported updates in either order gives the same
   set of windows, the same column sequence, version and lastModifiedAt; the
   order of the windows array may differ. *)
C5_MergeCommutesUnordered ==
    \A d \in DocsToMerge :
        LET ab == BoardSync_applyUpdate(BoardSync_applyUpdate(d, updates["A"]),
                                        updates["B"])
            ba == BoardSync_applyUpdate(BoardSync_applyUpdate(d, updates["B"]),
                                        updates["A"])
        IN  Unordered(Extracted(ab)) = Unordered(Extracted(ba))

(* A and B merged before, then each wrote on its own, both to the same
   window id, and exported *)
C5_Witness ==
    LET ua == updates["A"].structs
        ub == updates["B"].structs
    IN  /\ \E id \in DOMAIN ua \cap DOMAIN ub : ua[id].key[1] = "windows"
        /\ \E ia \in DOMAIN ua \ DOMAIN ub, ib \in DOMAIN ub \ DOMAIN ua :
              /\ ua[ia].key[1] = "windows"
              /\ ub[ib].key = ua[ia].key

---------------------------------------------------------------------------
(* SpecService: two BoardService replicas on one MemoryStorageService.  An
   operation runs up to `await this.storage.save(...)` in one step (the save
   and the watch callbacks it makes included) and notifies its listeners in a
   later step, when the promise of save has resolved. *)

SvcWindowIds == {"w1", "w2"}

SvcWindows ==
    {Window("w1", "backlog", 0, "n1", FALSE, now),
     Window("w2", "backlog", 1, "n1", FALSE, now)}

SvcOrders == {0}

(* Partial<Window> passed to updateWindow *)
SvcChanges == {[name |-> "n2"]}

(* boards another program on this machine can write: its timestamps come from
   the same clock *)
ExternalBoards ==
    {[createDefaultBoard(t) EXCEPT !.windows = ws] :
        t \in 1..now,
        ws \in {<<>>, <<Window("w2", "current", 0, "n1", FALSE, 1)>>}}

(* { ...window, ...changes } *)
ApplyChanges(window, changes) ==
    [f \in DOMAIN window |-> IF f \in DOMAIN changes THEN changes[f] ELSE window[f]]

Record(s, event) ==
    [s EXCEPT !.history = EventHistory_recordEvent(@, event, HistorySize)]

(* initialize(), up to `await this.storage.load()` *)
SvcInitLoad(r) ==
    /\ svc[r].phase = "new"
    /\ svc' = [svc EXCEPT ![r].phase = "loading", ![r].loaded = storage.state]
    /\ log' = [op |-> "load", by |-> r, done |-> FALSE, snapshot |-> storage.state,
               watch |-> {}, calls |-> <<>>]
    /\ UNCHANGED <<now, storage, pending, ops, boardVars, syncVars, histVars, extVars>>

(* initialize(), the rest: this.state = loadedState, watch, notifyListeners *)
SvcInitDone(r) ==
    /\ svc[r].phase = "loading"
    /\ LET s2 == [SetState(svc[r], svc[r].loaded) EXCEPT !.phase = "ready"]
       IN  /\ svc' = [svc EXCEPT ![r] = s2]
           /\ log' = [op |-> "initialize", by |-> r, done |-> TRUE,
                      snapshot |-> s2.state, watch |-> {},
                      calls |-> notifyListeners(r, s2)]
    /\ storage' = [storage EXCEPT !.watchers = Append(@, r)]
    /\ UNCHANGED <<now, pending, ops, boardVars, syncVars, histVars, extVars>>

SvcOnStateChange(r, listener) ==
    /\ ops < MaxSvcOps
    /\ listener \notin Range(svc[r].listeners)
    /\ svc' = [svc EXCEPT ![r].listeners = Append(@, listener)]
    /\ log' = [op |-> "onStateChange", by |-> r, done |-> FALSE,
               snapshot |-> storage.state, watch |-> {}, calls |-> <<>>]
    /\ ops' = ops + 1
    /\ UNCHANGED <<now, storage, pending, boardVars, syncVars, histVars, extVars>>

(* the function onStateChange returned: splice out the listener *)
SvcUnsubscribe(r, listener) ==
    /\ ops < MaxSvcOps
    /\ listener \in Range(svc[r].listeners)
    /\ LET keep(l) == l # listener
       IN  svc' = [svc EXCEPT ![r].listeners = SelectSeq(@, keep)]
    /\ log' = [op |-> "unsubscribe", by |-> r, done |-> FALSE,
               snapshot |-> storage.state, watch |-> {}, calls |-> <<>>]
    /\ ops' = ops + 1
    /\ UNCHANGED <<now, storage, pending, boardVars, syncVars, histVars, extVars>>

(* saveAndNotify up to its await: storage.save(this.state) stores the state
   and calls every watcher; s2 is the service of r with its new state *)
SaveAndNotify(r, s2, op) ==
    LET sv == [svc EXCEPT ![r] = [s2 EXCEPT !.last = [op |-> op,
                                                      before |-> svc[r].state,
                                                      after |-> s2.state]]]
    IN  /\ svc' = saveWatchers(sv, storage.watchers, s2.state)
        /\ storage' = [storage EXCEPT !.state = s2.state,
                                      !.notified = Range(storage.watchers)]
        /\ log' = [op |-> op, by |-> r, done |-> TRUE, snapshot |-> s2.state,
                   watch |-> Range(storage.watchers),
                   calls |-> saveCalls(sv, storage.watchers, s2.state)]
        /\ pending' = [pending EXCEPT ![r] = Append(@, s2.state)]
        /\ ops' = ops + 1
        /\ UNCHANGED <<now, boardVars, syncVars, histVars, extVars>>

(* an operation that returns before it changes anything *)
ReturnEarly(r, op) ==
    /\ log' = [op |-> op, by |-> r, done |-> FALSE, snapshot |-> storage.state,
               watch |-> {}, calls |-> <<>>]
    /\ ops' = ops + 1
    /\ UNCHANGED <<now, svc, storage, pending, boardVars, syncVars, histVars, extVars>>

(* a caller starts an operation on an initialized service; it has at most
   MaxPending earlier operations still waiting for their save *)
CanCall(r) ==
    /\ svc[r].phase = "ready"
    /\ ops < MaxSvcOps
    /\ Len(pending[r]) < MaxPending

SvcAddOrUpdateWindow(r, window) ==
    /\ CanCall(r)
    /\ LET event == [kind |-> "window_added", window |-> window, timestamp |-> now]
           s1 == Record(svc[r], event)
       IN  SaveAndNotify(r, SetState(s1, upsertWindow(s1.state, window, now)),
                         "addOrUpdateWindow")

SvcRemoveWindow(r, windowId) ==
    /\ CanCall(r)
    /\ LET event == [kind |-> "window_removed", windowId |-> windowId,
                     timestamp |-> now]
           s1 == Record(svc[r], event)
       IN  SaveAndNotify(r, SetState(s1, removeWindow(s1.state, windowId, now)),
                         "removeWindow")

SvcMoveWindow(r, windowId, toColumnId, toOrder) ==
    /\ CanCall(r)
    /\ IF ~hasWindow(svc[r].state, windowId)
       THEN ReturnEarly(r, "moveWindow")
       ELSE LET window == findWindow(svc[r].state, windowId)
                event == [kind |-> "window_moved", windowId |-> windowId,
                          fromCol |-> window.columnId, toCol |-> toColumnId,
                          fromOrder |-> window.order, toOrder |-> toOrder,
                          timestamp |-> now]
                s1 == Record(svc[r], event)
            IN  SaveAndNotify(r,
                    SetState(s1, moveWindow(s1.state, windowId, toColumnId,
                                            toOrder, now)),
                    "moveWindow")

SvcUpdateWindowStatus(r, windowId, isOpen) ==
    /\ CanCall(r)
    /\ SaveAndNotify(r,
           SetState(svc[r], updateWindowStatus(svc[r].state, windowId, isOpen, now)),
           "updateWindowStatus")

SvcUpdateWindow(r, windowId, changes) ==
    /\ CanCall(r)
    /\ IF ~hasWindow(svc[r].state, windowId)
       THEN ReturnEarly(r, "updateWindow")
       ELSE LET window == findWindow(svc[r].state, windowId)
                event == [kind |-> "window_updated", windowId |-> windowId,
                          changes |-> changes, timestamp |-> now]
                s1 == Record(svc[r], event)
                updated == [ApplyChanges(window, changes) EXCEPT !.lastActiveAt = now]
            IN  SaveAndNotify(r, SetState(s1, upsertWindow(s1.state, updated, now)),
                              "updateWindow")


(* an undo() that also puts back the time of the event it takes back *)
undoState_Rewind(state, event, t) ==
    LET undone == CASE event.kind = "window_added" ->
                          removeWindow(state, event.window.id, t)
                    [] event.kind = "window_moved" ->
                          moveWindow(state, event.windowId, event.fromCol,
                                     event.fromOrder, t)
                    [] OTHER -> state
    IN  [undone EXCEPT !.lastModifiedAt = event.timestamp]

(* an undo() that takes the removed id off the board once more *)
undoState_RemoveAgain(state, event, t) ==
    CASE event.kind = "window_added" -> removeWindow(state, event.window.id, t)
      [] event.kind = "window_removed" -> removeWindow(state, event.windowId, t)
      [] event.kind = "window_moved" ->
            moveWindow(state, event.windowId, event.fromCol, event.fromOrder, t)
      [] OTHER -> state

(* undo(): the inverse of the event, where the code has one *)
undoState(state, event, t) ==
    CASE event.kind = "window_added" -> removeWindow(state, event.window.id, t)
      [] event.kind = "window_moved" ->
            moveWindow(state, event.windowId, event.fromCol, event.fromOrder, t)
      [] OTHER -> state

(* redo(): the event applied again *)
redoState(state, event, t) ==
    CASE event.kind = "window_added" -> upsertWindow(state, event.window, t)
      [] event.kind = "window_removed" -> removeWindow(state, event.windowId, t)
      [] event.kind = "window_moved" ->
            moveWindow(state, event.windowId, event.toCol, event.toOrder, t)
      [] OTHER ->
            IF hasWindow(state, event.windowId)
            THEN upsertWindow(state,
                     ApplyChanges(findWindow(state, event.windowId), event.changes), t)
            ELSE state

SvcUndo(r) ==
    /\ CanCall(r)
    /\ IF ~EventHistory_canUndo(svc[r].history)
       THEN ReturnEarly(r, "undo")
       ELSE LET event == EventHistory_undoEvent(svc[r].history)
                s1 == [svc[r] EXCEPT !.history = EventHistory_undo(@)]
            IN  SaveAndNotify(r, SetState(s1, undoState(s1.state, event, now)),
                              "undo")

SvcRedo(r) ==
    /\ CanCall(r)
    /\ IF ~EventHistory_canRedo(svc[r].history)
       THEN ReturnEarly(r, "redo")
       ELSE LET event == EventHistory_redoEvent(svc[r].history)
                s1 == [svc[r] EXCEPT !.history = EventHistory_redo(@)]
            IN  SaveAndNotify(r, SetState(s1, redoState(s1.state, event, now)),
                              "redo")

(* saveAndNotify after its await: this.notifyListeners() *)
SvcContinue(r) ==
    /\ pending[r] # <<>>
    /\ pending' = [pending EXCEPT ![r] = Tail(@)]
    /\ log' = [op |-> "notify", by |-> r, done |-> TRUE, snapshot |-> svc[r].state,
               watch |-> {}, calls |-> notifyListeners(r, svc[r])]
    /\ UNCHANGED <<now, svc, storage, ops, boardVars, syncVars, histVars, extVars>>

(* storage.save(state) called by someone else than a BoardService *)
ExternalSave(state) ==
    /\ ops < MaxSvcOps
    /\ svc' = saveWatchers(svc, storage.watchers, state)
    /\ storage' = [storage EXCEPT !.state = state,
                                  !.notified = Range(storage.watchers)]
    /\ log' = [op |-> "external", by |-> None, done |-> TRUE, snapshot |-> state,
               watch |-> Range(storage.watchers),
               calls |-> saveCalls(svc, storage.watchers, state)]
    /\ ops' = ops + 1
    /\ UNCHANGED <<now, pending, boardVars, syncVars, histVars, extVars>>

(* the watch callback of r called once more with a state r held before: a
   late or repeated file-watcher event *)
StaleDeliver(r, state) ==
    /\ ops < MaxSvcOps
    /\ r \in Range(storage.watchers)
    /\ state \in svc[r].held
    /\ svc' = [svc EXCEPT ![r] = watchCallback(@, state)]
    /\ log' = [op |-> "stale", by |-> r, done |-> TRUE, snapshot |-> state,
               watch |-> {r}, calls |-> watchCalls(r, svc[r], state)]
    /\ ops' = ops + 1
    /\ UNCHANGED <<now, storage, pending, boardVars, syncVars, histVars, extVars>>

NextService ==
    \/ Tick
    \/ \E r \in Replicas : SvcInitLoad(r)
    \/ \E r \in Replicas : SvcInitDone(r)
    \/ \E r \in Replicas, l \in Listeners : SvcOnStateChange(r, l)
    \/ \E r \in Replicas, l \in Listeners : SvcUnsubscribe(r, l)
    \/ \E r \in Replicas, window \in SvcWindows : SvcAddOrUpdateWindow(r, window)
    \/ \E r \in Replicas, windowId \in SvcWindowIds : SvcRemoveWindow(r, windowId)
    \/ \E r \in Replicas, windowId \in SvcWindowIds, c \in ColumnIds, o \in SvcOrders :
          SvcMoveWindow(r, windowId, c, o)
    \/ \E r \in Replicas, windowId \in SvcWindowIds, isOpen \in {TRUE} :
          SvcUpdateWindowStatus(r, windowId, isOpen)
    \/ \E r \in Replicas, windowId \in SvcWindowIds, changes \in SvcChanges :
          SvcUpdateWindow(r, windowId, changes)
    \/ \E r \in Replicas : SvcUndo(r)
    \/ \E r \in Replicas : SvcRedo(r)
    \/ \E r \in Replicas : SvcContinue(r)
    \/ \E state \in ExternalBoards : ExternalSave(state)
    \/ \E r \in Replicas : \E state \in svc[r].held : StaleDeliver(r, state)

SpecService == Init /\ [][NextService]_vars

---------------------------------------------------------------------------
(* Claims about BoardService replicas on a shared storage (SpecService) *)

MutationOps ==
    {"addOrUpdateWindow", "removeWindow", "moveWindow", "updateWindow",
     "updateWindowStatus", "undo", "redo"}

(* the calls of the last step that went to listeners of replica q *)
CallsTo(q, calls) ==
    LET mine(c) == c.replica = q
    IN  SelectSeq(calls, mine)

(* every listener in `listeners`, once, in order, with `state` *)
EachOnce(q, listeners, state) ==
    [i \in 1..Len(listeners) |->
        [replica |-> q, listener |-> listeners[i], state |-> state]]

(* no operation is suspended, every replica is initialized, and the watch
   callback of every replica has run for what the storage holds now *)
Quiescent ==
    /\ \A r \in Replicas : svc[r].phase = "ready" /\ pending[r] = <<>>
    /\ storage.notified = Replicas

(* C6: once every replica has processed the watch notification for the final
   contents of the storage and nothing is in flight, all replicas hold the
   same windows and the same columns. *)
C6_ReplicasConverge ==
    Quiescent =>
        \A r, q \in Replicas :
            /\ WindowsOf(svc[r].state) = WindowsOf(svc[q].state)
            /\ svc[r].state.columns = svc[q].state.columns

(* the state the watch callback of q finds in the step that has just been
   made: the state it saved itself when q is the one that saved *)
LocalAtDelivery(q) ==
    IF log'.by = q /\ log'.op \in MutationOps THEN log'.snapshot ELSE svc[q].state

(* C7: when the watch callback hands snapshot S to a service whose state is
   L, then with S.lastModifiedAt <= L.lastModifiedAt the state stays L and no
   listener is called, and otherwise the state becomes S and every registered
   listener is called exactly once. *)
C7_StalenessGuard ==
    [][ops' = ops + 1 =>
        \A q \in log'.watch :
            LET S == log'.snapshot
                L == LocalAtDelivery(q)
            IN  IF S.lastModifiedAt <= L.lastModifiedAt
                THEN /\ svc'[q].state = L
                     /\ CallsTo(q, log'.calls) = <<>>
                ELSE /\ svc'[q].state = S
                     /\ CallsTo(q, log'.calls) = EachOnce(q, svc[q].listeners, S)]_vars

(* a save by A has just reached both watch callbacks: A ignored its own
   echo, B took the snapshot and called its listener *)
C7_Witness ==
    /\ log.op \in MutationOps
    /\ log.by = "A"
    /\ log.watch = Replicas
    /\ svc["B"].state = log.snapshot
    /\ CallsTo("A", log.calls) = <<>>
    /\ Len(CallsTo("B", log.calls)) = 1

(* C8: handing the watch callback a state the service held before leaves
   the state of the service as it is (a moved window stays in its new
   column) and calls no listener. *)
C8_StaleNeverReverts ==
    [][(ops' = ops + 1 /\ log'.op = "stale")
        => /\ svc'[log'.by].state = svc[log'.by].state
           /\ log'.calls = <<>>]_vars

(* the service moved a window to another column, and then its watch
   callback got the state from before the move *)
C8_Witness ==
    /\ log.op = "stale"
    /\ LET s == svc[log.by]
       IN  /\ EventHistory_canUndo(s.history)
           /\ EventHistory_undoEvent(s.history).kind = "window_moved"
           /\ \E i \in 1..Len(s.state.windows), j \in 1..Len(log.snapshot.windows) :
                 /\ s.state.windows[i].id = log.snapshot.windows[j].id
                 /\ s.state.windows[i].columnId # log.snapshot.windows[j].columnId

(* C9: when someone else saves a state to the shared storage, the listeners
   of every watching service are called with that state. *)
C9_ExternalChangesReach ==
    [][(ops' = ops + 1 /\ log'.op = "external")
        => \A q \in log'.watch :
              CallsTo(q, log'.calls) = EachOnce(q, svc[q].listeners, log'.snapshot)]_vars

(* C10: a local mutation that reaches its save calls none of the listeners
   of its service while the storage echoes the save, and calls each of them
   exactly once when the save has completed, with the state of the service
   at that moment: the state the mutation produced, unless the service has
   replaced it since (by a later operation of its own or by a newer snapshot
   from the storage). *)
C10_NotifiedOnce ==
    [][/\ (ops' = ops + 1 /\ log'.op \in MutationOps /\ log'.done)
            => /\ CallsTo(log'.by, log'.calls) = <<>>
               /\ pending'[log'.by] = Append(pending[log'.by], log'.snapshot)
       /\ (log'.op = "notify" /\ pending' # pending)
            => LET r == log'.by
                   produced == Head(pending[r])
               IN  /\ log'.calls = EachOnce(r, svc[r].listeners, svc[r].state)
                   /\ \/ svc[r].state = produced
                      \/ produced \in svc[r].held]_vars

(* a mutation of a service with two listeners has completed after the
   storage echoed its save to the service: both listeners were called *)
C10_Witness ==
    /\ log.op = "notify"
    /\ log.by \in storage.notified
    /\ Len(svc[log.by].listeners) = 2
    /\ Len(log.calls) = 2
    /\ storage.state = svc[log.by].state

---------------------------------------------------------------------------
(* SpecHistory: one EventHistory, built with some maximum size, and the
   calls recordEvent, undo, redo and clear made on it in any order.  Every
   recorded event is an object of its own; its number tells them apart. *)

HistEvent(n) == [kind |-> "window_removed", windowId |-> n, timestamp |-> now]

(* the events behind the position: the ones redo() could return *)
RedoTail(h) == {h.events[i] : i \in (h.position + 2)..Len(h.events)}

(* the part of histLog every call fills in the same way *)
Called(op, ret) ==
    [histLog EXCEPT !.op = op, !.ret = ret, !.prevOp = histLog.op,
                    !.prevRet = histLog.ret, !.before = hist,
                    !.before2 = histLog.before]

(* new EventHistory(n) *)
HistNew(n) ==
    /\ maxSize = 0
    /\ maxSize' = n
    /\ hist' = EventHistory_new
    /\ histLog' = Called("new", NullEvent)
    /\ UNCHANGED <<now, boardVars, syncVars, svcVars, extVars>>

HistRecord ==
    /\ maxSize > 0
    /\ Len(histLog.recorded) < MaxRecorded
    /\ LET event == HistEvent(Len(histLog.recorded) + 1)
       IN  /\ hist' = EventHistory_recordEvent(hist, event, maxSize)
           /\ histLog' = [Called("recordEvent", NullEvent) EXCEPT
                            !.recorded = Append(@, event),
                            !.run = IF histLog.op = "recordEvent"
                                    THEN Append(@, event) ELSE <<event>>,
                            !.undos = 0,
                            !.cut = @ \cup RedoTail(hist)]
    /\ UNCHANGED <<now, maxSize, boardVars, syncVars, svcVars, extVars>>

HistUndo ==
    /\ maxSize > 0
    /\ IF EventHistory_canUndo(hist)
       THEN /\ hist' = EventHistory_undo(hist)
            /\ histLog' = [Called("undo", EventHistory_undoEvent(hist)) EXCEPT
                             !.undos = @ + 1]
       ELSE /\ hist' = hist
            /\ histLog' = Called("undo", NullEvent)
    /\ UNCHANGED <<now, maxSize, boardVars, syncVars, svcVars, extVars>>

HistRedo ==
    /\ maxSize > 0
    /\ IF EventHistory_canRedo(hist)
       THEN /\ hist' = EventHistory_redo(hist)
            /\ histLog' = [Called("redo", EventHistory_redoEvent(hist)) EXCEPT
                             !.run = <<>>, !.undos = 0]
       ELSE /\ hist' = hist
            /\ histLog' = Called("redo", NullEvent)
    /\ UNCHANGED <<now, maxSize, boardVars, syncVars, svcVars, extVars>>

HistClear ==
    /\ maxSize > 0
    /\ hist' = EventHistory_clear(hist)
    /\ histLog' = [Called("clear", NullEvent) EXCEPT !.run = <<>>, !.undos = 0]
    /\ UNCHANGED <<now, maxSize, boardVars, syncVars, svcVars, extVars>>

NextHistory ==
    \/ \E n \in 1..MaxHistorySize : HistNew(n)
    \/ HistRecord
    \/ HistUndo
    \/ HistRedo
    \/ HistClear

SpecHistory == Init /\ [][NextHistory]_vars

---------------------------------------------------------------------------
(* Claims about the event history (SpecHistory) *)

(* a call has been made in this step (a call that changes nothing and repeats
   the call before it is a step that changes nothing) *)
HistCall(op) == histLog'.op = op /\ <<hist, histLog>>' # <<hist, histLog>>

(* C11: right after recordEvent, canRedo() is false; and an event that was
   undone (behind the position) when recordEvent was called is never returned
   by a later redo(). *)
C11_RecordCutsRedoTail ==
    [][/\ HistCall("recordEvent") => ~EventHistory_canRedo(hist')
       /\ HistCall("redo") => histLog'.ret \notin histLog.cut]_vars

(* redo() has returned an event although an earlier recordEvent cut off an
   undone one *)
C11_Witness ==
    /\ histLog.op = "redo"
    /\ histLog.ret # NullEvent
    /\ histLog.cut # {}

(* C12: at most maxSize events are retained; after more than maxSize
   recordEvent calls in a row the retained events are the last maxSize
   recorded ones, in recording order. *)
C12_HistoryBound ==
    maxSize > 0 =>
        /\ Len(hist.events) <= maxSize
        /\ (histLog.op = "recordEvent" /\ Len(histLog.run) > maxSize)
              => hist.events = SubSeq(histLog.recorded,
                                      Len(histLog.recorded) - maxSize + 1,
                                      Len(histLog.recorded))

(* maximum size 3 and five events recorded in a row *)
C12_Witness ==
    /\ maxSize = 3
    /\ histLog.op = "recordEvent"
    /\ Len(histLog.run) = 5
    /\ Len(hist.events) = 3

(* C13: after n <= maxSize recordEvent calls in a row, the k-th undo() in a
   row (k <= n) returns the (n-k+1)-th of these events and canRedo() is true
   after it; undo() when canUndo() is false returns null and changes
   nothing. *)
C13_UndoLifo ==
    [][HistCall("undo") =>
          IF EventHistory_canUndo(hist)
          THEN LET n == Len(histLog.run)
                   k == histLog'.undos
               IN  (histLog.op \in {"recordEvent", "undo"} /\ k <= n /\ n <= maxSize)
                      => /\ histLog'.ret = histLog.run[n - k + 1]
                         /\ EventHistory_canRedo(hist')
          ELSE histLog'.ret = NullEvent /\ hist' = hist]_vars

(* three events recorded in a row and then undone, all three *)
C13_Witness ==
    /\ histLog.op = "undo"
    /\ Len(histLog.run) = 3
    /\ histLog.undos = 3
    /\ histLog.ret = histLog.run[1]

(* C14: undo() and then redo() return the same event and leave events and
   position as they were before the undo(); and the same for redo() and then
   undo(). *)
C14_UndoRedoRoundTrip ==
    /\ (EventHistory_canUndo(hist) /\ maxSize > 0)
          => LET h1 == EventHistory_undo(hist)
             IN  /\ EventHistory_canRedo(h1)
                 /\ EventHistory_redoEvent(h1) = EventHistory_undoEvent(hist)
                 /\ EventHistory_redo(h1) = hist
    /\ (EventHistory_canRedo(hist) /\ maxSize > 0)
          => LET h1 == EventHistory_redo(hist)
             IN  /\ EventHistory_canUndo(h1)
                 /\ EventHistory_undoEvent(h1) = EventHistory_redoEvent(hist)
                 /\ EventHistory_undo(h1) = hist
    /\ (histLog.prevRet # NullEvent /\ histLog.ret # NullEvent
        /\ <<histLog.prevOp, histLog.op>> \in {<<"undo", "redo">>, <<"redo", "undo">>})
          => /\ histLog.ret = histLog.prevRet
             /\ hist = histLog.before2

(* redo() right after undo() in the middle of a history of three events *)
C14_Witness ==
    /\ histLog.prevOp = "undo"
    /\ histLog.op = "redo"
    /\ histLog.ret # NullEvent
    /\ Len(hist.events) = 3
    /\ hist.position = 1


---------------------------------------------------------------------------
(* Claims about undo and event recording in BoardService (SpecService) *)

RecordingOps == {"addOrUpdateWindow", "removeWindow", "moveWindow", "updateWindow"}

(* the windows of a board by what a user sees of them: presence, column,
   order, name and open flag *)
Visible(state) ==
    {[id |-> w.id, columnId |-> w.columnId, order |-> w.order, name |-> w.name,
      isOpen |-> w.isOpen] : w \in Range(state.windows)}

(* C15: when undo() follows directly on an addOrUpdateWindow, removeWindow,
   moveWindow or updateWindow of the same service, it returns true and every
   window is present, and in the column, at the order and with the fields, it
   had before that operation. *)
C15_UndoRestores ==
    [][\A r \in Replicas :
          (/\ ops' = ops + 1
           /\ log'.op = "undo"
           /\ log'.by = r
           /\ svc[r].last.op \in RecordingOps
           /\ svc[r].state = svc[r].last.after)
          => /\ log'.done
             /\ Visible(svc'[r].state) = Visible(svc[r].last.before)]_vars

StateChangingOps == RecordingOps \cup {"updateWindowStatus"}

(* C16: each addOrUpdateWindow, removeWindow, moveWindow, updateWindow and
   updateWindowStatus that changes the state of the service records exactly
   one event: the history after it is the history before it with one event
   recorded, and that event is the one the next undo() refers to. *)
C16_EveryChangeRecorded ==
    [][\A r \in Replicas :
          (/\ ops' = ops + 1
           /\ log'.op \in StateChangingOps
           /\ log'.by = r
           /\ log'.done
           /\ Visible(log'.snapshot) # Visible(svc[r].state))
          => /\ EventHistory_canUndo(svc'[r].history)
             /\ \E event \in Range(svc'[r].history.events) :
                    svc'[r].history =
                        EventHistory_recordEvent(svc[r].history, event, HistorySize)]_vars

(* C17: every local operation of a service that reaches saveAndNotify (add,
   remove, move, update, updateWindowStatus, undo, redo) leaves a state whose
   lastModifiedAt is at least that of the state the service had before it; the
   clock of the model never goes backwards. *)
C17_LastModifiedMonotone ==
    [][\A r \in Replicas :
          (/\ ops' = ops + 1
           /\ log'.op \in MutationOps
           /\ log'.by = r
           /\ log'.done)
          => log'.snapshot.lastModifiedAt >= svc[r].state.lastModifiedAt]_vars

(* an undo has just run on a state stamped after the event it took back *)
C17_Witness ==
    /\ log.op = "undo"
    /\ log.done
    /\ svc[log.by].last.op = "undo"
    /\ svc[log.by].last.after = log.snapshot
    /\ svc[log.by].last.before.lastModifiedAt > 1
    /\ svc[log.by].history.position + 2 <= Len(svc[log.by].history.events)
    /\ svc[log.by].history.events[svc[log.by].history.position + 2].timestamp
          < svc[log.by].last.before.lastModifiedAt

(* C18: moveWindow with an id that matches no window of the board returns the
   board as it was, lastModifiedAt included; and BoardService.moveWindow for
   such an id records no event, changes no state, saves nothing, suspends
   nothing and calls no listener. *)
C18_MoveAbsentIsNoOp ==
    /\ [](\A r \in Replicas, windowId \in SvcWindowIds, c \in ColumnIds,
             o \in 0..MaxOrder :
             ~hasWindow(svc[r].state, windowId)
                 => moveWindow(svc[r].state, windowId, c, o, now) = svc[r].state)
    /\ [][\A r \in Replicas, windowId \in SvcWindowIds, c \in ColumnIds,
             o \in SvcOrders :
             (SvcMoveWindow(r, windowId, c, o) /\ ~hasWindow(svc[r].state, windowId))
                 => /\ svc' = svc
                    /\ storage' = storage
                    /\ pending' = pending
                    /\ log'.calls = <<>>
                    /\ log'.watch = {}]_vars

(* moveWindow has just returned early on a service that holds other windows,
   has a listener registered and a board stamped before now *)
C18_Witness ==
    /\ log.op = "moveWindow"
    /\ ~log.done
    /\ svc[log.by].listeners # <<>>
    /\ svc[log.by].state.windows # <<>>
    /\ svc[log.by].state.lastModifiedAt < now

---------------------------------------------------------------------------
(* Claims about upsertWindow (SpecBoard) *)

IdsUnique(b) ==
    \A i, j \in 1..Len(b.windows) : i # j => b.windows[i].id # b.windows[j].id

(* C19: upsertWindow of a window whose id is on the board puts it at the index
   of the window it replaces and keeps the number of windows; otherwise it
   appends the window at the end; every other window stays as and where it
   was. So in every board reached by upsertWindow, removeWindow and moveWindow
   from the empty board no two windows have the same id. *)
C19_UpsertReplacesOrAppends ==
    /\ []IdsUnique(board)
    /\ [][\A window \in BoardWindows :
             (lastOp'.op = "upsert" /\ lastOp'.id = window.id /\ BoardUpsert(window)) =>
                IF \E i \in 1..Len(board.windows) : board.windows[i].id = window.id
                THEN /\ Len(board'.windows) = Len(board.windows)
                     /\ \A i \in 1..Len(board.windows) :
                            board'.windows[i] =
                                IF board.windows[i].id = window.id
                                THEN window
                                ELSE board.windows[i]
                ELSE /\ Len(board'.windows) = Len(board.windows) + 1
                     /\ board'.windows[Len(board'.windows)] = window
                     /\ \A i \in 1..Len(board.windows) :
                            board'.windows[i] = board.windows[i]]_vars

(* the last upsert replaced the first of several windows where it was *)
C19_Witness ==
    /\ lastOp.op = "upsert"
    /\ Len(board.windows) >= 2
    /\ board.windows[1].id = lastOp.id
    /\ board.windows[1].columnId = lastOp.columnId
    /\ board.windows[1].order = lastOp.order

---------------------------------------------------------------------------
(* Claims about BoardSync.loadState (SpecSync) *)

(* C20: right after loadState(state) on a document in any prior state,
   extractState() returns exactly the windows of `state` (none that was only
   in the document before), the columns of `state` in their order, and the
   version and lastModifiedAt of `state`. *)
C20_LoadStateReplaces ==
    [][\A r \in Replicas, state \in LoadBoards :
          SyncLoad(r, state) =>
              LET extracted == BoardSync_extractState(docs'[r], now)
              IN  /\ WindowsOf(extracted) = WindowsOf(state)
                  /\ extracted.columns = state.columns
                  /\ extracted.version = state.version
                  /\ extracted.lastModifiedAt = state.lastModifiedAt]_vars

---------------------------------------------------------------------------
(* SpecCrdt: two BoardServices, each on a CRDTStorageService of its own, on
   one disk *)

Ready == {r \in Replicas : crdt[r].phase = "ready"}

CrdtTxns == crdt["A"].doc.txns + crdt["B"].doc.txns

CrdtLog(op, r, before, merged, called, notified) ==
    [op |-> op, by |-> r, before |-> before, merged |-> merged,
     called |-> called, notified |-> notified]

(* BoardService.initialize(): load, then watch *)
CrdtInitialize(r) ==
    /\ crdt[r].phase = "new"
    /\ LET c == CRDTStorageService_load(crdt[r], files, now)
       IN  /\ crdt' = [crdt EXCEPT ![r] = [c EXCEPT !.phase = "ready",
                                                     !.state = c.currentState]]
           /\ crdtLog' = CrdtLog("initialize", r, crdt[r].state, c.currentState,
                                 FALSE, TRUE)
    /\ UNCHANGED <<now, files, coreVars, storeVars, subsVars, arrayVars, lateVars>>

(* the window of the VS Code window that replica r runs in *)
OwnWindow(r) ==
    IF r = "A" THEN Window("w1", "backlog", 0, "n1", FALSE, 1)
    ELSE Window("w2", "backlog", 1, "n1", FALSE, 1)

(* an operation of BoardService up to the await in saveAndNotify *)
CrdtOperation(r, op, state) ==
    /\ crdt' = [crdt EXCEPT ![r] =
                    CRDTStorageService_save([@ EXCEPT !.state = state], state)]
    /\ crdtLog' = CrdtLog(op, r, crdt[r].state, state, FALSE, FALSE)
    /\ UNCHANGED <<now, files, coreVars, storeVars, subsVars, arrayVars, lateVars>>

CrdtAddOrUpdateWindow(r, window) ==
    /\ crdt[r].phase = "ready"
    /\ CrdtTxns < MaxCrdtOps
    /\ CrdtOperation(r, "addOrUpdateWindow",
                     upsertWindow(crdt[r].state, window, now))

CrdtRemoveWindow(r, windowId) ==
    /\ crdt[r].phase = "ready"
    /\ CrdtTxns < MaxCrdtOps
    /\ CrdtOperation(r, "removeWindow", removeWindow(crdt[r].state, windowId, now))

(* the debounce timer of r fires: saveImmediate, then notifyListeners; every
   file watcher gets an event *)
CrdtSaveTimer(r) ==
    /\ crdt[r].saveTimer
    /\ crdt' = [crdt EXCEPT ![r].saveTimer = FALSE]
    /\ files' = [CRDTStorageService_saveImmediate(crdt[r], files)
                    EXCEPT !.changed = Ready]
    /\ crdtLog' = CrdtLog("saveImmediate", r, crdt[r].state, crdt[r].state,
                          FALSE, TRUE)
    /\ UNCHANGED <<now, coreVars, storeVars, subsVars, arrayVars, lateVars>>

(* the file watcher of r handles its event: merge, then the watch callback of
   BoardService.initialize with its guard *)
CrdtHandleChange(r) ==
    /\ r \in files.changed
    /\ files.sync # <<>>
    /\ LET h == CRDTStorageService_handleChange(crdt[r], files, now)
           merged == h.c.currentState
           adopt == h.called /\ ~Stale(merged, crdt[r].state)
       IN  /\ crdt' = [crdt EXCEPT ![r] =
                          IF adopt THEN [h.c EXCEPT !.state = merged] ELSE h.c]
           /\ crdtLog' = CrdtLog("handleChange", r, crdt[r].state, merged,
                                 h.called, adopt)
    /\ files' = [files EXCEPT !.changed = @ \ {r}]
    /\ UNCHANGED <<now, coreVars, storeVars, subsVars, arrayVars, lateVars>>

(* the sync file is found cut short or unreadable, as when it is read while
   another process is writing it *)
CrdtFileDamaged(readable) ==
    /\ files.sync # <<>>
    /\ files.sync[1].readable = "all"
    /\ files' = [files EXCEPT !.sync = <<Bytes(files.sync[1].update, readable)>>,
                              !.changed = Ready]
    /\ crdtLog' = CrdtLog("damaged", None, crdtLog.before, crdtLog.merged,
                          FALSE, FALSE)
    /\ UNCHANGED <<now, crdt, coreVars, storeVars, subsVars, arrayVars, lateVars>>

NextCrdt ==
    \/ Tick
    \/ \E r \in Replicas : CrdtInitialize(r)
    \/ \E r \in Replicas : CrdtAddOrUpdateWindow(r, OwnWindow(r))
    \/ \E r \in Replicas : CrdtRemoveWindow(r, OwnWindow(r).id)
    \/ \E r \in Replicas : CrdtSaveTimer(r)
    \/ \E r \in Replicas : CrdtHandleChange(r)
    \/ \E readable \in {"structs", "none"} : CrdtFileDamaged(readable)

SpecCrdt == Init /\ [][NextCrdt]_vars

(* C21: when the file watcher of a replica merges the sync file and the merged
   snapshot holds a window that the BoardService of the replica does not have
   (a change of the other replica), the BoardService takes the merged
   snapshot as its state and notifies its listeners. *)
C21_MergeOverridesGuard ==
    [][\A r \in Replicas :
          (/\ crdtLog'.op = "handleChange"
           /\ crdtLog'.by = r
           /\ crdtLog'.called
           /\ files'.changed # files.changed
           /\ WindowsOf(crdtLog'.merged) \ WindowsOf(crdt[r].state) # {})
          => /\ crdt'[r].state = crdtLog'.merged
             /\ crdtLog'.notified]_vars

---------------------------------------------------------------------------
(* SpecStore: one BoardService on the debounced StorageService *)

(* an operation of BoardService up to the await in saveAndNotify: the state
   is assigned and handed to save() *)
StoreOperation(op, state) ==
    LET k == Len(store.saved) + 1
    IN  /\ store' = [store EXCEPT
                        !.state = state,
                        !.timer = StorageService_save(store.timer, k, state),
                        !.promise[k] = "pending",
                        !.saved = Append(@, state)]
        /\ storeLog' = [op |-> op, k |-> k]
        /\ UNCHANGED <<now, coreVars, crdtVars, subsVars, arrayVars, lateVars>>

StoreAddOrUpdateWindow(window) ==
    /\ Len(store.saved) < MaxSaves
    /\ StoreOperation("addOrUpdateWindow", upsertWindow(store.state, window, now))

StoreRemoveWindow(windowId) ==
    /\ Len(store.saved) < MaxSaves
    /\ StoreOperation("removeWindow", removeWindow(store.state, windowId, now))

(* the timer fires and saveImmediate writes the file: resolve() *)
StoreTimerResolve ==
    /\ store.timer # <<>>
    /\ LET k == store.timer[1].id
           written == [store EXCEPT !.disk = <<store.timer[1].state>>,
                                    !.timer = <<>>,
                                    !.promise[k] = "resolved"]
       IN  store' = saveAndNotify_settled(written, TRUE)
    /\ storeLog' = [op |-> "resolved", k |-> store.timer[1].id]
    /\ UNCHANGED <<now, coreVars, crdtVars, subsVars, arrayVars, lateVars>>

(* the timer fires and createDirectory or writeFile throws: reject(error) *)
StoreTimerReject ==
    /\ store.timer # <<>>
    /\ LET k == store.timer[1].id
           failed == [store EXCEPT !.timer = <<>>, !.promise[k] = "rejected"]
       IN  store' = saveAndNotify_settled(failed, FALSE)
    /\ storeLog' = [op |-> "rejected", k |-> store.timer[1].id]
    /\ UNCHANGED <<now, coreVars, crdtVars, subsVars, arrayVars, lateVars>>

StoreTimer == StoreTimerResolve \/ StoreTimerReject

NextStore ==
    \/ Tick
    \/ \E window \in SvcWindows : StoreAddOrUpdateWindow(window)
    \/ \E windowId \in SvcWindowIds : StoreRemoveWindow(windowId)
    \/ StoreTimerResolve
    \/ StoreTimerReject

(* a timer that is set and not cleared fires *)
SpecStore == Init /\ [][NextStore]_vars /\ WF_vars(StoreTimer)

LastSaved == store.saved[Len(store.saved)]

(* C22: when the save of an operation fails, the promise of the operation is
   rejected, the state of the service stays the board the operation produced
   (the one handed to save), no listener is called, and the next operation is
   applied to that board; the board has no two windows with one id. *)
C22_FailedSaveKeepsState ==
    /\ [](IdsUnique(store.state)
            /\ (store.saved # <<>> => store.state = LastSaved))
    /\ [][(storeLog'.op = "rejected" /\ store' # store)
            => /\ store'.promise[storeLog'.k] = "rejected"
               /\ store'.state = store.state
               /\ store'.state = store.saved[storeLog'.k]
               /\ store'.notified = store.notified
               /\ store'.disk = store.disk]_vars

(* a save was rejected and a later operation added a second window to the
   board the failed operation had left *)
C22_Witness ==
    /\ store.promise[1] = "rejected"
    /\ store.promise[2] = "pending"
    /\ Len(store.saved[1].windows) = 1
    /\ Len(store.state.windows) = 2
    /\ store.state.windows[1] = store.saved[1].windows[1]
    /\ store.disk = <<>>

(* C24: the promise of every save() call is eventually resolved or rejected,
   so that every operation of BoardService gets past its await, also when
   the next save() is made before the timer of an earlier one has fired. *)
C24_EverySaveSettles ==
    \A k \in 1..MaxSaves :
        (store.promise[k] = "pending") ~> (store.promise[k] \in {"resolved", "rejected"})

(* the file holds the state of the last save() call *)
LastSavedOnDisk ==
    store.saved # <<>> => store.disk = <<LastSaved>>

(* C25 as stated: after the last save() call of the replica the file, and so
   the state a new BoardService loads from it, is eventually and from then on
   the state passed to that call. *)
C25_LatestSaveWins == <>[]LastSavedOnDisk

(* C25, amended: the same, unless the write of the timer that the last save()
   call set has failed; states passed to earlier calls whose timers were
   cleared are never written after it. *)
C25_LatestSaveWinsUnlessRejected ==
    <>[](store.saved # <<>> =>
            \/ /\ store.disk = <<LastSaved>>
               /\ StorageService_load(store.disk, now) = LastSaved
            \/ store.promise[Len(store.saved)] = "rejected")

(* two save() calls were coalesced: the timer of the first was cleared, the
   second wrote its state, which differs from the first *)
C25_Witness ==
    /\ Len(store.saved) = 2
    /\ store.promise[1] = "pending"
    /\ store.promise[2] = "resolved"
    /\ store.saved[1] # store.saved[2]
    /\ store.disk = <<store.saved[2]>>
    /\ store.timer = <<>>

---------------------------------------------------------------------------
(* Claims about malformed sync files (SpecCrdt) *)

(* C23: when the file watcher of a replica applies a sync file that does not
   decode, the state extracted from the document of the replica is what it
   was before, the watch callback is not called and the state of the
   BoardService stays. *)
C23_MalformedRejected ==
    [][\A r \in Replicas :
          (/\ crdtLog'.op = "handleChange"
           /\ crdtLog'.by = r
           /\ files'.changed # files.changed
           /\ files.sync[1].readable # "all")
          => /\ BoardSync_extractState(crdt'[r].doc, now)
                    = BoardSync_extractState(crdt[r].doc, now)
             /\ ~crdtLog'.called
             /\ crdt'[r].state = crdt[r].state]_vars

---------------------------------------------------------------------------
(* SpecListen: the callback list of BoardService.onStateChange; the watcher
   list of MemoryStorageService.watch is the same code.  A registration is
   one call of onStateChange: the function passed and the number of times
   the function it returned has been called. *)

MaxRegs == 3
MaxUnsubscribeCalls == 2

(* Array.prototype.indexOf, 1-based; 0 when absent *)
indexOf(list, x) ==
    IF \E i \in 1..Len(list) : list[i] = x
    THEN Min({i \in 1..Len(list) : list[i] = x})
    ELSE 0

(* splice(index, 1) *)
splice(list, index) ==
    [i \in 1..(Len(list) - 1) |-> IF i < index THEN list[i] ELSE list[i + 1]]

(* the function onStateChange returns *)
unsubscribe(listeners, listener) ==
    LET index == indexOf(listeners, listener)
    IN  IF index >= 1 THEN splice(listeners, index) ELSE listeners

ListenOnStateChange(listener) ==
    /\ Len(subs.regs) < MaxRegs
    /\ subs' = [listeners |-> Append(subs.listeners, listener),
                regs |-> Append(subs.regs, [fn |-> listener, unsubscribed |-> 0])]
    /\ subsLog' = [op |-> "onStateChange", reg |-> Len(subs.regs) + 1,
                   calls |-> <<>>]
    /\ UNCHANGED <<now, coreVars, crdtVars, storeVars, arrayVars, lateVars>>

ListenUnsubscribe(reg) ==
    /\ subs.regs[reg].unsubscribed < MaxUnsubscribeCalls
    /\ subs' = [listeners |-> unsubscribe(subs.listeners, subs.regs[reg].fn),
                regs |-> [subs.regs EXCEPT ![reg].unsubscribed = @ + 1]]
    /\ subsLog' = [op |-> "unsubscribe", reg |-> reg, calls |-> <<>>]
    /\ UNCHANGED <<now, coreVars, crdtVars, storeVars, arrayVars, lateVars>>

(* notifyListeners(): every element of the list is called, in order *)
ListenNotify ==
    /\ subsLog' = [op |-> "notify", reg |-> 0, calls |-> subs.listeners]
    /\ UNCHANGED <<now, subs, coreVars, crdtVars, storeVars, arrayVars, lateVars>>

NextListen ==
    \/ \E listener \in Listeners : ListenOnStateChange(listener)
    \/ \E reg \in 1..Len(subs.regs) : ListenUnsubscribe(reg)
    \/ ListenNotify

SpecListen == Init /\ [][NextListen]_vars

(* how often x occurs in a list *)
Count(list, x) == Cardinality({i \in 1..Len(list) : list[i] = x})

(* the registrations of `listener` whose unsubscribe function was not called *)
Subscribed(listener) ==
    {reg \in 1..Len(subs.regs) :
        subs.regs[reg].fn = listener /\ subs.regs[reg].unsubscribed = 0}

(* C26: a notification calls a callback once for each of its registrations
   that was not unsubscribed, so never for one that was; and calling the
   unsubscribe function of a registration a second time leaves the list of
   callbacks as it is and removes no other registration. *)
C26_UnsubscribeIdempotent ==
    /\ [](\A listener \in Listeners :
             Count(subs.listeners, listener) = Cardinality(Subscribed(listener)))
    /\ [][\A reg \in 1..Len(subs.regs) :
             (/\ subsLog'.op = "unsubscribe"
              /\ subsLog'.reg = reg
              /\ subs' # subs
              /\ subs.regs[reg].unsubscribed >= 1)
             => subs'.listeners = subs.listeners]_vars

---------------------------------------------------------------------------
(* Claims about moveWindow (SpecBoard) *)

AllDense(b) == \A columnId \in ColumnIds : Dense(b, columnId)

(* the windows of the column other than windowId *)
Others(b, columnId, windowId) ==
    {i \in 1..Len(b.windows) :
        b.windows[i].columnId = columnId /\ b.windows[i].id # windowId}

(* C27: on a board where the windows of every column have the orders 0..n-1,
   moveWindow of an existing window to an order between 0 and the number of
   other windows in the destination column leaves a board where the windows
   of every column again have the orders 0..m-1. *)
C27_MoveKeepsDense ==
    [][\A windowId \in WindowIds, c \in ColumnIds, o \in 0..MaxOrder :
          (/\ BoardMove(windowId, c, o)
           /\ hasWindow(board, windowId)
           /\ AllDense(board)
           /\ o <= Cardinality(Others(board, c, windowId)))
          => AllDense(board')]_vars

(* a window in a column that no move of the model touches *)
Bystander == Window("w9", "done", 1, "n1", FALSE, 1)

(* C29: moveWindow of window w from column A, order o, to another column B at
   toOrder gives w the column B and the order toOrder (and a new
   lastActiveAt); every other window of A with an order above o goes down by
   one; every other window of B with an order of toOrder or more goes up by
   one; all other windows, also those of other columns, and all other fields
   stay; the number and sequence of windows stay.  When A = B no order goes
   down. *)
C29_CrossColumnMove ==
    [][\A windowId \in WindowIds, B \in ColumnIds, toOrder \in 0..MaxOrder :
          (/\ lastOp' = [op |-> "move", id |-> windowId, columnId |-> B,
                         order |-> toOrder]
           /\ hasWindow(board, windowId)
           /\ BoardMove(windowId, B, toOrder))
          => LET w == findWindow(board, windowId)
                 A == w.columnId
                 o == w.order
                 with == [board EXCEPT !.windows = Append(@, Bystander)]
                 moved == moveWindow(with, windowId, B, toOrder, now)
             IN  /\ Len(board'.windows) = Len(board.windows)
                 /\ moved.windows[Len(moved.windows)] = Bystander
                 /\ \A i \in 1..Len(board.windows) :
                        LET x == board.windows[i]
                            y == board'.windows[i]
                        IN  IF x.id = windowId
                            THEN y = [x EXCEPT !.columnId = B, !.order = toOrder,
                                               !.lastActiveAt = now]
                            ELSE IF A = B
                            THEN y.order >= x.order /\ y = [x EXCEPT !.order = y.order]
                            ELSE IF x.columnId = A /\ x.order > o
                            THEN y = [x EXCEPT !.order = x.order - 1]
                            ELSE IF x.columnId = B /\ x.order >= toOrder
                            THEN y = [x EXCEPT !.order = x.order + 1]
                            ELSE y = x]_vars

(* a window has just been moved out of a column in which a window stood
   behind it, into a column in which a window stood at its new order or
   behind: both columns were repaired *)
C29_Witness ==
    /\ lastOp.op = "move"
    /\ hasWindow(board, lastOp.id)
    /\ findWindow(board, lastOp.id).columnId = lastOp.columnId
    /\ findWindow(board, lastOp.id).order = 0
    /\ \E i, j \in 1..Len(board.windows) :
          /\ board.windows[i].columnId = lastOp.columnId
          /\ board.windows[i].id # lastOp.id
          /\ board.windows[i].order = 1
          /\ board.windows[j].columnId # lastOp.columnId
          /\ board.windows[j].order = 0
    /\ Len(board.windows) = 3

---------------------------------------------------------------------------
(* SpecArray: upsertWindow and removeWindow on one BoardCRDT *)

ArrayWindows ==
    {Window(id, "backlog", 0, name, FALSE, 1) :
        id \in ArrayWindowIds, name \in {"n1", "n2"}}

ArrayUpsert(window) ==
    /\ Len(ywindows) < MaxItems
    /\ ywindows' = BoardCRDT_upsertWindow(ywindows, window)
    /\ latest' = [latest EXCEPT ![window.id] = <<window>>]
    /\ UNCHANGED <<now, coreVars, crdtVars, storeVars, subsVars, lateVars>>

ArrayRemove(windowId) ==
    /\ ywindows' = BoardCRDT_removeWindow(ywindows, windowId)
    /\ latest' = [latest EXCEPT ![windowId] = <<>>]
    /\ UNCHANGED <<now, coreVars, crdtVars, storeVars, subsVars, lateVars>>

NextArray ==
    \/ \E window \in ArrayWindows : ArrayUpsert(window)
    \/ \E windowId \in ArrayWindowIds : ArrayRemove(windowId)

SpecArray == Init /\ [][NextArray]_vars

(* C28: after any sequence of upsertWindow and removeWindow on one BoardCRDT,
   getState().windows holds no window of an id that was never upserted or was
   removed after its last upsert, and exactly one window of every other id:
   the one passed to the last upsertWindow for that id. *)
C28_ArrayHoldsLatest ==
    LET windows == toArray(ywindows)
    IN  \A id \in ArrayWindowIds :
            LET held == {i \in 1..Len(windows) : windows[i].id = id}
            IN  IF latest[id] = <<>>
                THEN held = {}
                ELSE /\ Cardinality(held) = 1
                     /\ \A i \in held : windows[i] = latest[id][1]

(* w1 was upserted, upserted again with another name, and w2 was upserted and
   removed: the list holds two tombstones and the second w1 *)
C28_Witness ==
    /\ latest["w1"] # <<>>
    /\ latest["w2"] = <<>>
    /\ \E p, q \in 1..Len(ywindows) :
          /\ ywindows[p].deleted
          /\ ywindows[p].content.id = "w1"
          /\ ywindows[p].content # latest["w1"][1]
          /\ ywindows[q].deleted
          /\ ywindows[q].content.id = "w2"
    /\ toArray(ywindows) = latest["w1"]

---------------------------------------------------------------------------
(* Claims about the position of EventHistory (SpecHistory) *)

(* C30: in an EventHistory with a maximum size of 1 or more, after any calls
   of recordEvent, undo, redo and clear, the position is at least -1 and at
   most the number of retained events minus 1; canUndo() is true exactly
   when the position is 0 or more, which is when there is an event at the
   position; canRedo() is true exactly when the position is below the number
   of events minus 1, which is when there is an event after it; both are
   false in a new and in a cleared history. *)
C30_PositionInRange ==
    maxSize >= 1 =>
        /\ -1 <= hist.position
        /\ hist.position <= Len(hist.events) - 1
        /\ EventHistory_canUndo(hist) <=> hist.position >= 0
        /\ EventHistory_canUndo(hist) <=> (hist.position + 1) \in DOMAIN hist.events
        /\ EventHistory_canRedo(hist) <=> hist.position < Len(hist.events) - 1
        /\ EventHistory_canRedo(hist) <=> (hist.position + 2) \in DOMAIN hist.events
        /\ histLog.op \in {"new", "clear"}
              => ~EventHistory_canUndo(hist) /\ ~EventHistory_canRedo(hist)

(* a history of maximum size 2 in which the fourth event has just been
   recorded: the oldest were trimmed and the position moved with them *)
C30_Witness ==
    /\ maxSize = 2
    /\ histLog.op = "recordEvent"
    /\ Len(histLog.recorded) = 4
    /\ Len(hist.events) = 2
    /\ hist.position = 1

---------------------------------------------------------------------------
(* Claims about undo of a removal in BoardService (SpecService) *)

(* the event history.undo() is about to return to undo() is a window_removed *)
UndoesRemoval(r) ==
    /\ EventHistory_canUndo(svc[r].history)
    /\ EventHistory_undoEvent(svc[r].history).kind = "window_removed"

(* the last operation of r was the undo() of a window_removed, which redo()
   is about to get back from the history *)
RedoesRemoval(r) ==
    /\ svc[r].last.op = "undo"
    /\ EventHistory_canRedo(svc[r].history)
    /\ EventHistory_redoEvent(svc[r].history).kind = "window_removed"

(* C31: an undo() for which the history returns a window_removed event
   completes (it reaches saveAndNotify, no error) and leaves the windows of
   the service as they were, the removed window not restored; a redo() that
   follows it leaves the windows without a window of that id. *)
C31_UndoOfRemovalIsNoOp ==
    [][\A r \in Replicas :
          /\ (/\ ops' = ops + 1
              /\ log'.op = "undo"
              /\ log'.by = r
              /\ UndoesRemoval(r))
             => /\ log'.done
                /\ svc'[r].state.windows = svc[r].state.windows
          /\ (/\ ops' = ops + 1
              /\ log'.op = "redo"
              /\ log'.by = r
              /\ RedoesRemoval(r))
             => /\ log'.done
                /\ ~hasWindow(svc'[r].state,
                              EventHistory_redoEvent(svc[r].history).windowId)]_vars

(* a service that has undone the removal of a window it held again at the
   time of the undo (another program had saved it back), and still holds it *)
C31_Witness ==
    \E r \in Replicas :
        /\ log.op = "undo" /\ log.by = r /\ log.done
        /\ RedoesRemoval(r)
        /\ svc[r].last.after.windows = svc[r].last.before.windows
        /\ hasWindow(svc[r].state, EventHistory_redoEvent(svc[r].history).windowId)

---------------------------------------------------------------------------
(* SpecReentrant: SpecListen with callbacks that call their own unsubscribe
   function while notifyListeners (or MemoryStorageService.save) is calling
   them.  Array.prototype.forEach reads the length once, then visits the
   indices 0..length-1 of the array as it is at each visit, skipping an index
   the array no longer has. *)

(* listeners.forEach(listener => listener(state)) from the k-th element on,
   where calling `fn` runs the function onStateChange returned for it:
   the list as the loop leaves it, the callbacks called in order, and the
   number of times the unsubscribe function ran *)
RECURSIVE forEach(_, _, _, _, _, _)
forEach(list, k, len, fn, calls, n) ==
    IF k > len THEN [listeners |-> list, calls |-> calls, unsubscribed |-> n]
    ELSE IF k > Len(list) THEN forEach(list, k + 1, len, fn, calls, n)
    ELSE IF list[k] = fn
         THEN forEach(unsubscribe(list, fn), k + 1, len, fn,
                      Append(calls, list[k]), n + 1)
         ELSE forEach(list, k + 1, len, fn, Append(calls, list[k]), n)

(* notifyListeners() while the callback of registration reg unsubscribes
   itself when it is called *)
ListenNotifyUnsubscribing(reg) ==
    /\ subs.regs[reg].unsubscribed < MaxUnsubscribeCalls
    /\ LET fn == subs.regs[reg].fn
           done == forEach(subs.listeners, 1, Len(subs.listeners), fn, <<>>, 0)
       IN  /\ subs' = [listeners |-> done.listeners,
                       regs |-> [subs.regs EXCEPT
                                    ![reg].unsubscribed = @ + done.unsubscribed]]
           /\ subsLog' = [op |-> "notifyUnsubscribing", reg |-> reg,
                          calls |-> done.calls]
    /\ UNCHANGED <<now, coreVars, crdtVars, storeVars, arrayVars, lateVars>>

NextReentrant ==
    \/ \E listener \in Listeners : ListenOnStateChange(listener)
    \/ \E reg \in 1..Len(subs.regs) : ListenUnsubscribe(reg)
    \/ ListenNotify
    \/ \E reg \in 1..Len(subs.regs) : ListenNotifyUnsubscribing(reg)

SpecReentrant == Init /\ [][NextReentrant]_vars

(* C32: when a callback registered once calls its own unsubscribe function
   while a notification calls it, every other callback registered at that
   moment is still called exactly once by that notification, and the
   callback that unsubscribed is off the list, so no later notification
   calls it. *)
C32_UnsubscribeInCallbackSafe ==
    [][\A reg \in 1..Len(subs.regs) :
          (/\ subsLog'.op = "notifyUnsubscribing"
           /\ subsLog'.reg = reg
           /\ \A x \in Range(subs.listeners) : Count(subs.listeners, x) = 1
           /\ subs.regs[reg].fn \in Range(subs.listeners))
          => /\ \A x \in Range(subs.listeners) \ {subs.regs[reg].fn} :
                    Count(subsLog'.calls, x) = 1
             /\ subs.regs[reg].fn \notin Range(subs'.listeners)]_vars

---------------------------------------------------------------------------
(* SpecMachine: events sent to one boardMachine actor *)

MachineWindowIds == {"w1", "w2"}

MachineWindows ==
    {Window(id, c, o, "n1", FALSE, now) :
        id \in MachineWindowIds, c \in ColumnIds, o \in 0..1}

(* Partial<Window> *)
MachineUpdates == {[name |-> "n2"], [isOpen |-> TRUE], [columnId |-> "current", order |-> 0]}

MachineEvents ==
    {[type |-> "ADD_WINDOW", window |-> w] : w \in MachineWindows}
    \cup {[type |-> "REMOVE_WINDOW", windowId |-> id] : id \in MachineWindowIds}
    \cup {[type |-> "MOVE_WINDOW", windowId |-> id, toColumnId |-> c, toOrder |-> o] :
              id \in MachineWindowIds, c \in ColumnIds, o \in 0..1}
    \cup {[type |-> "UPDATE_WINDOW", windowId |-> id, updates |-> u] :
              id \in MachineWindowIds, u \in MachineUpdates}

MachineSend(event) ==
    /\ sent < MaxSent
    /\ context' = boardMachine_transition(context, event, now)
    /\ sent' = sent + 1
    /\ UNCHANGED <<now, earlyVars, mergeVars, wm>>

MachineAdd == \E event \in MachineEvents : event.type = "ADD_WINDOW" /\ MachineSend(event)
MachineRemove == \E event \in MachineEvents : event.type = "REMOVE_WINDOW" /\ MachineSend(event)
MachineMove == \E event \in MachineEvents : event.type = "MOVE_WINDOW" /\ MachineSend(event)
MachineUpdate == \E event \in MachineEvents : event.type = "UPDATE_WINDOW" /\ MachineSend(event)

NextMachine ==
    \/ Tick
    \/ MachineAdd
    \/ MachineRemove
    \/ MachineMove
    \/ MachineUpdate

SpecMachine == Init /\ [][NextMachine]_vars

(* the event that, sent to the machine, stored `e` *)
EventOf(e) ==
    CASE e.type = "WindowAdded" -> [type |-> "ADD_WINDOW", window |-> e.window]
      [] e.type = "WindowRemoved" -> [type |-> "REMOVE_WINDOW", windowId |-> e.windowId]
      [] e.type = "WindowMoved" ->
            [type |-> "MOVE_WINDOW", windowId |-> e.windowId,
             toColumnId |-> e.toColumnId, toOrder |-> e.toOrder]
      [] e.type = "WindowUpdated" ->
            [type |-> "UPDATE_WINDOW", windowId |-> e.windowId, updates |-> e.updates]

(* the stored events applied in order, each at its own timestamp *)
RECURSIVE Replay(_, _)
Replay(ctx, events) ==
    IF events = <<>> THEN ctx
    ELSE Replay(boardMachine_transition(ctx, EventOf(Head(events)),
                                        Head(events).timestamp),
                Tail(events))

(* the windows of a board in array order, without their timestamps *)
Untimed(b) ==
    [i \in 1..Len(b.windows) |->
        [f \in DOMAIN b.windows[i] \ {"lastActiveAt"} |-> b.windows[i][f]]]

(* C33: the eventStore of the machine only grows, by one event appended at
   the end per transition, and the stored events replayed in order from the
   initial context give the windows of the current board (every field but the
   timestamps, in the same array order). *)
C33_BoardIsReplayOfEvents ==
    /\ [](Untimed(Replay(boardMachine_context(1), context.eventStore).board)
            = Untimed(context.board))
    /\ [][\/ context'.eventStore = context.eventStore
          \/ /\ Len(context'.eventStore) = Len(context.eventStore) + 1
             /\ SubSeq(context'.eventStore, 1, Len(context.eventStore))
                    = context.eventStore]_vars

(* a board reached by a move that shifted another window, after an update and
   with all four kinds of transition possible before it *)
C33_Witness ==
    /\ Len(context.eventStore) = MaxSent
    /\ context.eventStore[MaxSent].type = "WindowMoved"
    /\ \E i \in 1..Len(context.board.windows) :
          /\ context.board.windows[i].id # context.eventStore[MaxSent].windowId
          /\ context.board.windows[i].columnId = context.eventStore[MaxSent].toColumnId
          /\ context.board.windows[i].order > context.eventStore[MaxSent].toOrder

---------------------------------------------------------------------------
(* SpecMerge: two BoardCRDT documents that start empty, are changed locally
   and apply each other's state *)

MergeWindowIds == {"w1", "w2"}

MergeWindows ==
    {Window(id, c, o, "n1", FALSE, now) :
        id \in MergeWindowIds, c \in ColumnIds, o \in 0..1}

MergeUpsert(r, window) ==
    /\ yops < MaxMergeOps
    /\ ydocs' = [ydocs EXCEPT ![r] = BoardCRDT_doc_upsertWindow(@, window, now)]
    /\ yops' = yops + 1
    /\ UNCHANGED <<now, earlyVars, machineVars, wm>>

MergeRemove(r, windowId) ==
    /\ yops < MaxMergeOps
    /\ BoardCRDT_findIndex(ydocs[r], windowId) >= 0
    /\ ydocs' = [ydocs EXCEPT ![r] = BoardCRDT_doc_removeWindow(@, windowId, now)]
    /\ yops' = yops + 1
    /\ UNCHANGED <<now, earlyVars, machineVars, wm>>

MergeMove(r, windowId, toColumnId, toOrder) ==
    /\ yops < MaxMergeOps
    /\ BoardCRDT_findIndex(ydocs[r], windowId) >= 0
    /\ ydocs' = [ydocs EXCEPT
                    ![r] = BoardCRDT_doc_moveWindow(@, windowId, toColumnId,
                                                    toOrder, now)]
    /\ yops' = yops + 1
    /\ UNCHANGED <<now, earlyVars, machineVars, wm>>

(* crdt_r.applyUpdate(crdt_from.getStateVector()) *)
MergeApply(r, from) ==
    /\ r # from
    /\ ydocs' = [ydocs EXCEPT
                    ![r] = BoardCRDT_applyUpdate(@, BoardCRDT_getStateVector(ydocs[from]))]
    /\ UNCHANGED <<now, yops, earlyVars, machineVars, wm>>

NextMerge ==
    \/ \E r \in Replicas, window \in MergeWindows : MergeUpsert(r, window)
    \/ \E r \in Replicas, windowId \in MergeWindowIds : MergeRemove(r, windowId)
    \/ \E r \in Replicas, windowId \in MergeWindowIds, c \in ColumnIds, o \in 0..1 :
          MergeMove(r, windowId, c, o)
    \/ \E r, from \in Replicas : MergeApply(r, from)

SpecMerge == Init /\ [][NextMerge]_vars

(* each replica has applied everything the other has *)
Exchanged ==
    \A r, q \in Replicas :
        /\ BoardCRDT_itemIds(ydocs[r]) = BoardCRDT_itemIds(ydocs[q])
        /\ ydocs[r].deleted = ydocs[q].deleted

(* C35: once two replicas that started from the same state have applied each
   other's updates, the windows each of them extracts hold at most one window
   per id, and both hold the same windows. *)
C35_IdsUniqueAcrossMerges ==
    Exchanged =>
        \A r, q \in Replicas :
            LET array == BoardCRDT_toArray(ydocs[r])
            IN  /\ \A i, j \in 1..Len(array) : array[i].id = array[j].id => i = j
                /\ array = BoardCRDT_toArray(ydocs[q])

---------------------------------------------------------------------------
(* Claims about the three implementations of move (SpecMerge): the board a
   BoardCRDT extracts is given to Board.moveWindow and to the moveWindow
   action of the boardMachine, and the document to BoardCRDT.moveWindow *)

(* getState() of a document, as far as the windows go *)
BoardOf(y) ==
    [windows |-> BoardCRDT_toArray(y), columns |-> boardMachine_DEFAULT_COLUMNS,
     version |-> 5, lastModifiedAt |-> 1]

(* id, columnId and order of the windows of an array, in array order *)
Places(windows) ==
    [i \in 1..Len(windows) |->
        [id |-> windows[i].id, columnId |-> windows[i].columnId,
         order |-> windows[i].order]]

MoveInputs == MergeWindowIds \X ColumnIds \X (0..2)

(* the three implementations give the same places for the board of y *)
MovesAgree(y, in) ==
    LET b == BoardOf(y)
        byBoard == moveWindow(b, in[1], in[2], in[3], now).windows
        byMachine == boardMachine_moveWindow(
                         [board |-> b, eventStore |-> <<>>],
                         [type |-> "MOVE_WINDOW", windowId |-> in[1],
                          toColumnId |-> in[2], toOrder |-> in[3]], now).board.windows
        byCRDT == BoardCRDT_toArray(
                      BoardCRDT_doc_moveWindow(y, in[1], in[2], in[3], now))
    IN  /\ Places(byBoard) = Places(byMachine)
        /\ Places(byBoard) = Places(byCRDT)

(* C34 as stated: for every board the three implementations of move give
   every window the same columnId and order. *)
C34_MovesAgree ==
    \A r \in Replicas : \A in \in MoveInputs : MovesAgree(ydocs[r], in)

UniqueIds(windows) ==
    \A i, j \in 1..Len(windows) : windows[i].id = windows[j].id => i = j

(* C34 amended: for every board whose window ids are unique the three
   implementations of move give every window the same columnId and order,
   also when the window is not on the board and when it stays in its column. *)
C34_MovesAgreeOnUniqueIds ==
    \A r \in Replicas :
        UniqueIds(BoardCRDT_toArray(ydocs[r]))
            => \A in \in MoveInputs : MovesAgree(ydocs[r], in)

(* a board with unique ids and two windows in one column on which a move
   shifts the other window, one with a move inside the column, and an id that
   is not on the board *)
C34_Witness ==
    \E r \in Replicas :
        LET array == BoardCRDT_toArray(ydocs[r])
        IN  /\ UniqueIds(array)
            /\ Len(array) = 2
            /\ array[1].columnId = array[2].columnId
            /\ array[1].order # array[2].order
            /\ Places(moveWindow(BoardOf(ydocs[r]), array[1].id,
                                 array[1].columnId, array[2].order, now).windows)
                  # Places(array)
            /\ yops = MaxMergeOps

---------------------------------------------------------------------------
(* Claims about the columns of merged BoardSync documents (SpecSync) *)

(* each replica has made at most one transaction, a loadState of a board
   with the default columns, and nothing else happened but exchanges *)
LoadedOnce(r) ==
    /\ docs[r].txns <= 1
    /\ \A i \in 1..Len(docs[r].lists[ColumnsKey]) :
          docs[r].lists[ColumnsKey][i].content \in Range(DEFAULT_COLUMNS)

(* C36: when the replicas have each called loadState with the same column
   list on their own document and applied each other's updates, the columns
   each of them extracts hold every column id at most once. *)
C36_ColumnsNotDuplicated ==
    \A r \in Replicas :
        (\A q \in Replicas : LoadedOnce(q))
            => LET columns == Extracted(docs[r]).columns
               IN  \A i, j \in 1..Len(columns) : columns[i] = columns[j] => i = j

---------------------------------------------------------------------------
(* Claims about removals under CRDTStorageService (SpecCrdt) *)

(* replica r has no window of its own on its board, nothing of it waits to be
   saved, and no other replica has started: whatever r did to its window, a
   removal included, is saved, and nobody else added or updated that id *)
RemovalSaved(r) ==
    /\ crdt[r].phase = "ready"
    /\ ~crdt[r].saveTimer
    /\ ~hasWindow(crdt[r].state, OwnWindow(r).id)
    /\ \A q \in Replicas \ {r} : crdt[q].phase = "new"

(* C37: once removeWindow(id) of a replica has been saved through
   CRDTStorageService and no other replica has added or updated that id, no
   snapshot the storage of the replica delivers to its watch callback holds a
   window with that id. *)
C37_RemovalDurable ==
    [][\A r \in Replicas :
          (/\ crdtLog'.op = "handleChange"
           /\ crdtLog'.by = r
           /\ crdtLog'.called
           /\ files'.changed # files.changed
           /\ RemovalSaved(r))
          => ~hasWindow(crdtLog'.merged, OwnWindow(r).id)]_vars

---------------------------------------------------------------------------
(* SpecRegister: one board changed by WindowManager.registerCurrentWindow and
   by removeWindow and moveWindow; the operations reach the board through
   BoardService, whose state is `board` here *)

(* models/Window.ts createWindow *)
createWindow(id, name, columnId, order, t) ==
    Window(id, columnId, order, name, TRUE, t)

(* registerCurrentWindow for the workspace folder whose path hashes to id:
   the board BoardService holds after it *)
WindowManager_registerCurrentWindow(b, id, folderName, t) ==
    IF hasWindow(b, id)
    THEN LET updated == [findWindow(b, id) EXCEPT !.name = folderName,
                                                  !.isOpen = TRUE,
                                                  !.lastActiveAt = t]
         IN  upsertWindow(b, updated, t)
    ELSE IF Len(b.columns) >= 1
    THEN LET firstColumn == b.columns[1]
             inColumn(w) == w.columnId = firstColumn
             windowsInColumn == SelectSeq(b.windows, inColumn)
         IN  upsertWindow(b, createWindow(id, folderName, firstColumn,
                                          Len(windowsInColumn), t), t)
    ELSE b

RegisterCurrentWindow(id) ==
    /\ MaxOrderOf(WindowManager_registerCurrentWindow(board, id, "n1", now)) <= MaxOrder
    /\ board' = WindowManager_registerCurrentWindow(board, id, "n1", now)
    /\ lastOp' = [op |-> "register", id |-> id, columnId |-> None, order |-> 0]
    /\ UNCHANGED <<now, syncVars, svcVars, histVars, extVars>>

NextRegister ==
    \/ Tick
    \/ \E id \in WindowIds : RegisterCurrentWindow(id)
    \/ \E windowId \in WindowIds : BoardRemove(windowId)
    \/ \E windowId \in WindowIds, c \in ColumnIds, o \in 0..MaxOrder :
          BoardMove(windowId, c, o)

SpecRegister == Init /\ [][NextRegister]_vars

(* C38: when registerCurrentWindow adds a window that is not on the board,
   no other window of the first column has the order it is given. *)
C38_RegisterGetsFreeSlot ==
    [][\A id \in WindowIds :
          (/\ lastOp'.op = "register"
           /\ lastOp'.id = id
           /\ ~hasWindow(board, id)
           /\ hasWindow(board', id))
          => SlotFree(board', findWindow(board', id))]_vars

---------------------------------------------------------------------------
(* SpecHeartbeat: one WindowManager, its heartbeat and the debounce timer of
   the storage *)

(* initialize(): registerCurrentWindow() up to the await of its save *)
WmRegister(id) ==
    /\ wm.pc = "new"
    /\ Len(store.saved) < MaxSaves
    /\ store' = BoardService_saveAndNotify(store,
                    WindowManager_registerCurrentWindow(store.state, id, "n1", now))
    /\ storeLog' = [op |-> "registerCurrentWindow", k |-> Len(store.saved) + 1]
    /\ wm' = [wm EXCEPT !.currentWindowId = id, !.pc = "registering",
                        !.awaits = Len(store.saved) + 1]
    /\ UNCHANGED <<now, coreVars, crdtVars, subsVars, arrayVars, machineVars,
                   mergeVars>>

(* initialize() after registerCurrentWindow: startHeartbeat() *)
WmStartHeartbeat ==
    /\ wm.pc = "registering"
    /\ store.promise[wm.awaits] = "resolved"
    /\ wm' = [wm EXCEPT !.heartbeatTimer = TRUE, !.pc = "running", !.awaits = 0]
    /\ UNCHANGED <<now, earlyVars, machineVars, mergeVars>>

(* the interval of startHeartbeat fires: updateWindowStatus(id, true) *)
WmHeartbeat ==
    /\ wm.heartbeatTimer
    /\ Len(store.saved) < MaxSaves
    /\ store' = BoardService_saveAndNotify(store,
                    updateWindowStatus(store.state, wm.currentWindowId, TRUE, now))
    /\ storeLog' = [op |-> "heartbeat", k |-> Len(store.saved) + 1]
    /\ UNCHANGED <<now, wm, coreVars, crdtVars, subsVars, arrayVars, machineVars,
                   mergeVars>>

(* unregisterCurrentWindow() up to the await of updateWindowStatus(id, false) *)
WmUnregister ==
    /\ wm.pc = "running"
    /\ Len(store.saved) < MaxSaves
    /\ store' = BoardService_saveAndNotify(store,
                    updateWindowStatus(store.state, wm.currentWindowId, FALSE, now))
    /\ storeLog' = [op |-> "unregisterCurrentWindow", k |-> Len(store.saved) + 1]
    /\ wm' = [wm EXCEPT !.pc = "unregistering", !.awaits = Len(store.saved) + 1]
    /\ UNCHANGED <<now, coreVars, crdtVars, subsVars, arrayVars, machineVars,
                   mergeVars>>

(* unregisterCurrentWindow() after its await: stopHeartbeat() *)
WmUnregisterDone ==
    /\ wm.pc = "unregistering"
    /\ store.promise[wm.awaits] = "resolved"
    /\ wm' = [wm EXCEPT !.heartbeatTimer = FALSE, !.pc = "unregistered",
                        !.awaits = 0]
    /\ UNCHANGED <<now, earlyVars, machineVars, mergeVars>>

(* the awaited save was rejected: the exception leaves initialize() or
   unregisterCurrentWindow() before the line that follows the await *)
WmThrow ==
    /\ wm.pc \in {"registering", "unregistering"}
    /\ store.promise[wm.awaits] = "rejected"
    /\ wm' = [wm EXCEPT !.pc = "threw", !.awaits = 0]
    /\ UNCHANGED <<now, earlyVars, machineVars, mergeVars>>

NextHeartbeat ==
    \/ Tick
    \/ \E id \in SvcWindowIds : WmRegister(id)
    \/ WmStartHeartbeat
    \/ WmHeartbeat
    \/ WmUnregister
    \/ WmUnregisterDone
    \/ WmThrow
    \/ StoreTimerResolve
    \/ StoreTimerReject

(* a timer that is set and not cleared fires, and a call whose await has
   settled goes on *)
SpecHeartbeat ==
    /\ Init
    /\ [][NextHeartbeat]_vars
    /\ WF_vars(StoreTimer)
    /\ WF_vars(WmStartHeartbeat \/ WmUnregisterDone \/ WmThrow)

(* the record of the current window says it is closed *)
MarkedClosed ==
    /\ hasWindow(store.state, wm.currentWindowId)
    /\ ~findWindow(store.state, wm.currentWindowId).isOpen

(* C39: once unregisterCurrentWindow has been called for the registered
   window, its record has isOpen = false from then on, and the call
   eventually completes with the heartbeat stopped. *)
C39_UnregisterClosesForGood ==
    /\ [](wm.pc \in {"unregistering", "unregistered"} => MarkedClosed)
    /\ (wm.pc = "unregistering")
          ~> (wm.pc = "unregistered" /\ ~wm.heartbeatTimer)

====
